---- MODULE Spec2Model ----
(***************************************************************************)
(* Model of igniter_js (native/igniter_js): the JavaScript import manager, *)
(* the named-object extender and the hook-object operations of             *)
(* parsers/javascript/ast.rs with the NIF wrappers of                      *)
(* parsers/javascript/ast_ex.rs, the hook-object operations of             *)
(* parsers/javascript/phoenix.rs, the statistics collector of              *)
(* parsers/javascript/ast_statistics.rs and the stylesheet import          *)
(* inserter of parsers/css/ast.rs.                                         *)
(*                                                                         *)
(* Every operation is a function from (source text, parameters) to a       *)
(* result.  A behaviour fixes one source text `file` and applies the       *)
(* operations to it; `call` records the last call and `ret` its result.    *)
(* `hook_extender` is the visitor of phoenix.rs while one of its passes is *)
(* followed step by step.                                                  *)
(*                                                                         *)
(* A source text is a record                                               *)
(*   [errors, quote, stmts]                                                *)
(* errors : "none" | "recoverable" | "fatal"  - what the parser will meet  *)
(* quote  : "single" | "double"  - the quote style the text is written in  *)
(* stmts  : the statements the text spells out                             *)
(* A tree (ParserReturn) is [errors : BOOLEAN, body : Seq(Statement)]; the *)
(* tree keeps no quote style, and codegen always prints double quotes.     *)
(***************************************************************************)
EXTENDS Integers, Sequences, FiniteSets, TLC

VARIABLES file, call, ret, hook_extender

vars == <<file, call, ret, hook_extender>>

----------------------------------------------------------------------------
(* Bounds *)

MaxStmts == 3
MaxLines == 2
MaxModules == 2
MaxDecls == 2
MaxProps == 2
MaxNames == 2

----------------------------------------------------------------------------
(* Generic helpers *)

SeqsUpTo(S, n) == UNION {[1..k -> S] : k \in 0..n}

Range(s) == {s[i] : i \in 1..Len(s)}

\* Vec::insert(position, e) with a 0-based position
VecInsert(s, position, e) ==
    SubSeq(s, 1, position) \o <<e>> \o SubSeq(s, position + 1, Len(s))

Ok(v) == [status |-> "ok", value |-> v]
Err(m) == [status |-> "error", value |-> m]

----------------------------------------------------------------------------
(* Statements *)

Modules == {"mod", "MOD", "other"}

ImportDeclaration(src, spec) ==
    [kind |-> "ImportDeclaration", source |-> src, specifiers |-> spec]

ExpressionStatement(n) == [kind |-> "ExpressionStatement", id |-> n]

IsImport(node) == node.kind = "ImportDeclaration"

\* One import of every module, and a second import of "mod" with other
\* bindings
ImportStatements ==
    {ImportDeclaration(m, "{ foo }") : m \in Modules}
    \cup {ImportDeclaration("mod", "bar")}
PlainStatements == {ExpressionStatement(n) : n \in 1..2}

Text(e, q, s) == [errors |-> e, quote |-> q, stmts |-> s]

\* Expressions
Identifier(name) == [type |-> "Identifier", name |-> name]
NumericLiteral == [type |-> "NumericLiteral"]
ArrowFunctionExpression == [type |-> "ArrowFunctionExpression"]
ObjectExpression(props) == [type |-> "ObjectExpression", properties |-> props]
NewExpression(callee, arguments) ==
    [type |-> "NewExpression", callee |-> callee, arguments |-> arguments]

\* ObjectPropertyKind
SpreadProperty(arg) == [kind |-> "SpreadProperty", argument |-> arg]
ObjectProperty(key, value, shorthand) ==
    [kind |-> "ObjectProperty", key |-> key, value |-> value,
     shorthand |-> shorthand]

\* A declarator binds an identifier, or a destructuring pattern, which has
\* no binding identifier
ObjectPattern == "{ a, b }"
VariableDeclarator(id, init) == [id |-> id, init |-> init]
VariableDeclaration(decls) ==
    [kind |-> "VariableDeclaration", declarations |-> decls]
BlockStatement(body) == [kind |-> "BlockStatement", body |-> body]

\* The spread marker of a requested name: format!("...{}", sym)
SpreadMarker == "..."
WithSpreadMarker(name) == SpreadMarker \o name
HasSpreadMarker(name) ==
    Len(name) > Len(SpreadMarker)
        /\ SubSeq(name, 1, Len(SpreadMarker)) = SpreadMarker
WithoutSpreadMarker(name) == SubSeq(name, Len(SpreadMarker) + 1, Len(name))

----------------------------------------------------------------------------
(* Tree adapter: parser and code generator *)

\* ast.rs source_to_ast: Parser::parse never fails; syntax errors are
\* reported in ParserReturn.errors, and the program is empty when the
\* parser gave up.  The result is always Ok.
source_to_ast(file_content) ==
    Ok([errors |-> file_content.errors # "none",
        body   |-> IF file_content.errors = "fatal" THEN <<>>
                   ELSE file_content.stmts])

\* What the printed text of a node spells.  A shorthand property prints its
\* name alone, so one whose name carries the spread marker reads as a spread
\* element in the text.
RECURSIVE PrintExpression(_)
RECURSIVE PrintProperty(_)
PrintProperty(prop) ==
    IF prop.kind = "SpreadProperty"
    THEN SpreadProperty(PrintExpression(prop.argument))
    ELSE IF prop.shorthand /\ HasSpreadMarker(prop.key)
    THEN SpreadProperty(Identifier(WithoutSpreadMarker(prop.key)))
    ELSE ObjectProperty(prop.key, PrintExpression(prop.value), prop.shorthand)
PrintExpression(expr) ==
    IF expr.type = "ObjectExpression"
    THEN ObjectExpression([i \in 1..Len(expr.properties) |->
                              PrintProperty(expr.properties[i])])
    ELSE IF expr.type = "NewExpression"
    THEN NewExpression(expr.callee,
                       [i \in 1..Len(expr.arguments) |->
                           PrintExpression(expr.arguments[i])])
    ELSE expr

PrintDeclarator(decl) == VariableDeclarator(decl.id, PrintExpression(decl.init))

RECURSIVE PrintStatement(_)
PrintStatement(node) ==
    IF node.kind = "VariableDeclaration"
    THEN VariableDeclaration([i \in 1..Len(node.declarations) |->
                                 PrintDeclarator(node.declarations[i])])
    ELSE IF node.kind = "BlockStatement"
    THEN BlockStatement([i \in 1..Len(node.body) |-> PrintStatement(node.body[i])])
    ELSE node

\* ast.rs codegen: prints the program; string literals in double quotes
codegen(body) ==
    Text("none", "double", [i \in 1..Len(body) |-> PrintStatement(body[i])])

----------------------------------------------------------------------------
(* Import manager (ast.rs) *)

is_module_imported_from_ast(file_content, module_name) ==
    LET parsed == source_to_ast(file_content).value
    IN  Ok(\E i \in 1..Len(parsed.body) :
              /\ IsImport(parsed.body[i])
              /\ parsed.body[i].source = module_name)

\* ast.rs:131-139: an existing import with the same source value
IsDuplicateImportBySpecifiers(body, new_import) ==
    \E i \in 1..Len(body) :
        /\ IsImport(body[i])
        /\ IsImport(new_import)
        /\ body[i].source = new_import.source
        /\ body[i].specifiers = new_import.specifiers
IsDuplicateImport(body, new_import) ==
    \E i \in 1..Len(body) :
        /\ IsImport(body[i])
        /\ IsImport(new_import)
        /\ body[i].source = new_import.source

\* ast.rs:143-149: one past the last import declaration, 0 when there is none
InsertPositionFirst(body) ==
    IF \E i \in 1..Len(body) : IsImport(body[i])
    THEN CHOOSE i \in 1..Len(body) :
            /\ IsImport(body[i])
            /\ \A j \in 1..(i - 1) : ~IsImport(body[j])
    ELSE 0
InsertPosition(body) ==
    IF \E i \in 1..Len(body) : IsImport(body[i])
    THEN CHOOSE i \in 1..Len(body) :
            /\ IsImport(body[i])
            /\ \A j \in (i + 1)..Len(body) : ~IsImport(body[j])
    ELSE 0

\* ast.rs:124-129: the first import declaration of the parsed line
FindImport(line_body) ==
    IF \E i \in 1..Len(line_body) : IsImport(line_body[i])
    THEN Ok(line_body[CHOOSE i \in 1..Len(line_body) :
                /\ IsImport(line_body[i])
                /\ \A j \in 1..(i - 1) : ~IsImport(line_body[j])])
    ELSE Err("No import declaration found in parsed import line")

\* ast.rs:118-152: the loop over import_lines.lines()
RECURSIVE InsertLinesSkipBad(_, _)
InsertLinesSkipBad(body, lines) ==
    IF lines = <<>> THEN Ok(body)
    ELSE LET new_parsed == source_to_ast(Head(lines)).value
             new_import == FindImport(new_parsed.body)
         IN  IF new_parsed.errors \/ new_import.status = "error"
             THEN InsertLinesSkipBad(body, Tail(lines))
             ELSE IF IsDuplicateImport(body, new_import.value)
             THEN InsertLinesSkipBad(body, Tail(lines))
             ELSE InsertLinesSkipBad(
                      VecInsert(body, InsertPosition(body), new_import.value),
                      Tail(lines))
RECURSIVE InsertLines(_, _)
InsertLines(body, lines) ==
    IF lines = <<>> THEN Ok(body)
    ELSE LET new_parsed == source_to_ast(Head(lines)).value
             new_import == FindImport(new_parsed.body)
         IN  IF new_parsed.errors
             THEN Err("Failed to parse import line")
             ELSE IF new_import.status = "error"
             THEN new_import
             ELSE IF IsDuplicateImport(body, new_import.value)
             THEN InsertLines(body, Tail(lines))
             ELSE InsertLines(
                      VecInsert(body, InsertPosition(body), new_import.value),
                      Tail(lines))

insert_import_to_ast(file_content, import_lines) ==
    LET parsed == source_to_ast(file_content).value
        done   == InsertLines(parsed.body, import_lines)
    IN  IF done.status = "error" THEN done
        ELSE Ok(codegen(done.value))

\* ast.rs:189-196: the retain predicate
RetainStatementDropAllImports(modules, node) == ~IsImport(node)
RetainStatement(modules, node) ==
    IF IsImport(node) THEN node.source \notin Range(modules) ELSE TRUE

remove_import_from_ast(file_content, modules) ==
    LET parsed == source_to_ast(file_content).value
        keep(node) == RetainStatement(modules, node)
    IN  Ok(codegen(SelectSeq(parsed.body, keep)))

----------------------------------------------------------------------------
(* NIF wrappers (ast_ex.rs): (status, value) handed to the host *)

is_module_imported_from_ast_nif(file_content, module_name) ==
    LET r == is_module_imported_from_ast(file_content, module_name)
    IN  IF r.status = "ok" /\ r.value = TRUE
        THEN [status |-> "ok", value |-> TRUE]
        ELSE [status |-> "error", value |-> FALSE]

insert_import_to_ast_nif(file_content, import_lines) ==
    insert_import_to_ast(file_content, import_lines)

remove_import_from_ast_nif(file_content, modules) ==
    remove_import_from_ast(file_content, modules)

----------------------------------------------------------------------------
(* Inputs of the import manager *)

ErrorKinds == {"none", "recoverable", "fatal"}
Quotes == {"single", "double"}

\* Valid texts in either quote style, and broken texts from which the
\* parser recovers at most one statement
ImportFiles ==
    {Text("none", q, s) :
        q \in Quotes,
        s \in SeqsUpTo(ImportStatements \cup PlainStatements, MaxStmts)}
    \cup {Text(e, "double", s) :
            e \in ErrorKinds \ {"none"},
            s \in SeqsUpTo(ImportStatements \cup PlainStatements, 1)}

\* One line of import_lines: a well-formed import, a line without an
\* import, a blank line, a line the parser rejects, and an import line
\* followed by garbage.
ImportLineTexts ==
    {Text("none", "double", <<i>>) : i \in ImportStatements}
    \cup {Text("none", "double", <<ExpressionStatement(1)>>),
          Text("none", "double", <<>>),
          Text("fatal", "double", <<>>),
          Text("recoverable", "double", <<ImportDeclaration("mod", "bar")>>)}

ImportBatches == SeqsUpTo(ImportLineTexts, MaxLines)

ModuleLists == SeqsUpTo(Modules, MaxModules)

NoCall == [op |-> "none", arg |-> <<>>]
NoRet == [status |-> "none", value |-> <<>>]

\* No pass of the hook visitor is running.  A pass begins with
\* HookExtender::new (phoenix.rs:23-31), which sets find to NotFound("")
NoExtender ==
    [pc |-> "idle", find |-> [cond |-> "NotFound", reason |-> ""],
     pending |-> <<>>]

----------------------------------------------------------------------------
(* Specification of the import manager *)

InitImport ==
    /\ file \in ImportFiles
    /\ call = NoCall
    /\ ret = NoRet
    /\ hook_extender = NoExtender

IsModuleImported ==
    /\ call.op = "none"
    /\ \E module_name \in Modules :
        /\ call' = [op |-> "is_module_imported_from_ast", arg |-> module_name]
        /\ ret' = is_module_imported_from_ast(file, module_name)
        /\ UNCHANGED <<file, hook_extender>>

IsModuleImportedNif ==
    /\ call.op = "none"
    /\ \E module_name \in Modules :
        /\ call' = [op |-> "is_module_imported_from_ast_nif", arg |-> module_name]
        /\ ret' = is_module_imported_from_ast_nif(file, module_name)
        /\ UNCHANGED <<file, hook_extender>>

InsertImport ==
    /\ call.op = "none"
    /\ \E import_lines \in ImportBatches :
        /\ call' = [op |-> "insert_import_to_ast", arg |-> import_lines]
        /\ ret' = insert_import_to_ast_nif(file, import_lines)
        /\ UNCHANGED <<file, hook_extender>>

RemoveImport ==
    /\ call.op = "none"
    /\ \E modules \in ModuleLists :
        /\ call' = [op |-> "remove_import_from_ast", arg |-> modules]
        /\ ret' = remove_import_from_ast_nif(file, modules)
        /\ UNCHANGED <<file, hook_extender>>

\* The call returns to the host, which may call again.
Return ==
    /\ call.op # "none"
    /\ hook_extender.pc \in {"idle", "done"}
    /\ call' = NoCall
    /\ ret' = NoRet
    /\ hook_extender' = NoExtender
    /\ UNCHANGED file

NextImport ==
    \/ Return
    \/ IsModuleImported
    \/ IsModuleImportedNif
    \/ InsertImport
    \/ RemoveImport

SpecImport == InitImport /\ [][NextImport]_vars

----------------------------------------------------------------------------
(* Named-object extender (ast.rs) *)

Panic == [status |-> "panic", value |-> "called Option::unwrap() on a None value"]

\* ast.rs:451-462: a spread of the identifier `name`, or a property whose
\* value is the identifier `name`
PropertyRefersTo(x, name) ==
    IF x.kind = "SpreadProperty"
    THEN x.argument.type = "Identifier" /\ x.argument.name = name
    ELSE x.value.type = "Identifier" /\ x.value.name = name

create_and_import_object_into_hook(name) ==
    ObjectProperty(name, Identifier(name), TRUE)

\* ast.rs:450-467: the loop over object_names
RECURSIVE ExtendProperties(_, _)
ExtendProperties(properties, names) ==
    IF names = <<>> THEN properties
    ELSE IF \E i \in 1..Len(properties) :
               PropertyRefersTo(properties[i], Head(names))
    THEN ExtendProperties(properties, Tail(names))
    ELSE ExtendProperties(
             Append(properties, create_and_import_object_into_hook(Head(names))),
             Tail(names))

\* ast.rs:446-473: the closure applied to a declarator
VisitDeclarator(decl, var_name, object_names) ==
    IF decl.id = ObjectPattern THEN Panic
    ELSE IF decl.id = var_name
    THEN Ok(IF decl.init.type = "ObjectExpression"
            THEN VariableDeclarator(decl.id,
                     ObjectExpression(
                         ExtendProperties(decl.init.properties, object_names)))
            ELSE decl)
    ELSE Err("Variable not found in javascript body")

\* ast.rs:442-476: find_map stops at the first top-level variable
\* declaration, whose closure is applied to its first declarator only
\* (.map(..).next())
FirstVariableDeclaration(body) ==
    LET S == {i \in 1..Len(body) : body[i].kind = "VariableDeclaration"}
    IN  IF S = {} THEN 0 ELSE CHOOSE i \in S : \A j \in S : i <= j

extend_var_object_property_by_names_to_ast(file_content, var_name, object_names) ==
    LET parsed == source_to_ast(file_content).value
        body   == parsed.body
        at     == FirstVariableDeclaration(body)
    IN  IF at = 0
        THEN Err("Variable not found in javascript body or javascript file is invalid")
        ELSE LET result == VisitDeclarator(body[at].declarations[1],
                                           var_name, object_names)
             IN  IF result.status = "ok"
                 THEN Ok(codegen(
                          [body EXCEPT ![at].declarations[1] = result.value]))
                 ELSE result

extend_var_object_property_by_names_to_ast_nif(file_content, var_name, object_names) ==
    extend_var_object_property_by_names_to_ast(file_content, var_name, object_names)

----------------------------------------------------------------------------
(* Inputs of the named-object extender *)

VarNames == {"Components", "Other"}
EntryNames == {"Hooks", "Extra"}

LightDeclarators ==
    {VariableDeclarator("Components", ObjectExpression(<<>>)),
     VariableDeclarator("Components", ArrowFunctionExpression),
     VariableDeclarator("Other", ObjectExpression(<<>>)),
     VariableDeclarator(ObjectPattern, Identifier("Other"))}

\* Statements of one declarator, at top level or nested in a block, and a
\* statement without declarations
VarStatements ==
    {VariableDeclaration(<<d>>) : d \in LightDeclarators}
    \cup {BlockStatement(<<VariableDeclaration(<<d>>)>>) : d \in LightDeclarators}
    \cup {ExpressionStatement(1)}

\* Up to MaxDecls statements of one declarator each, or one statement of
\* up to MaxDecls declarators
VarBodies ==
    SeqsUpTo(VarStatements, MaxDecls)
    \cup {<<VariableDeclaration(d)>> :
            d \in SeqsUpTo(LightDeclarators, MaxDecls) \ {<<>>}}

\* Properties an object literal of the source may hold: shorthand entries,
\* a spread entry, and key-value properties whose value is an identifier
\* or a literal
SourceProperties ==
    {ObjectProperty(n, Identifier(n), TRUE) : n \in EntryNames}
    \cup {SpreadProperty(Identifier("Hooks")),
          ObjectProperty("Hooks", Identifier("Extra"), FALSE),
          ObjectProperty("Hooks", NumericLiteral, FALSE)}

VarFiles ==
    {Text("none", "double", s) : s \in VarBodies}
    \cup {Text(e, "double", s) :
            e \in ErrorKinds \ {"none"}, s \in SeqsUpTo(VarStatements, 1)}
    \cup {Text("none", "double",
               <<VariableDeclaration(
                    <<VariableDeclarator("Components", ObjectExpression(p))>>)>>) :
            p \in SeqsUpTo(SourceProperties, MaxProps)}

RequestedNames == {"Hooks", WithSpreadMarker("Hooks"), "Extra"}
NameLists == SeqsUpTo(RequestedNames, MaxNames)

----------------------------------------------------------------------------
(* Specification of the named-object extender *)

InitVar ==
    /\ file \in VarFiles
    /\ call = NoCall
    /\ ret = NoRet
    /\ hook_extender = NoExtender

ExtendVarObject ==
    /\ call.op = "none"
    /\ \E var_name \in VarNames \cup {"Missing"}, object_names \in NameLists :
        /\ call' = [op |-> "extend_var_object_property_by_names_to_ast",
                    arg |-> [var_name |-> var_name, object_names |-> object_names]]
        /\ ret' = extend_var_object_property_by_names_to_ast_nif(
                      file, var_name, object_names)
        /\ UNCHANGED <<file, hook_extender>>

NextVar ==
    \/ Return
    \/ ExtendVarObject

SpecVar == InitVar /\ [][NextVar]_vars

----------------------------------------------------------------------------
(* Hook-object extender and remover (ast.rs) *)

Min(S) == CHOOSE x \in S : \A y \in S : x <= y

\* ast.rs:216-232: some top-level declarator binds the identifier liveSocket
find_live_socket_node_from_ast(parsed) ==
    IF \E i \in 1..Len(parsed.body) :
          /\ parsed.body[i].kind = "VariableDeclaration"
          /\ \E j \in 1..Len(parsed.body[i].declarations) :
                parsed.body[i].declarations[j].id = "liveSocket"
    THEN Ok(TRUE)
    ELSE Err(FALSE)

\* ast.rs:579-586: the initializer is a new expression, whatever its callee
get_new_expression(decl) == decl.init.type = "NewExpression"

\* ast.rs:588-595
get_object_expression(arg) == arg.type = "ObjectExpression"

\* The arguments of a declarator's new expression that are object literals
ObjectArguments(decl) ==
    IF get_new_expression(decl)
    THEN {k \in 1..Len(decl.init.arguments) :
             get_object_expression(decl.init.arguments[k])}
    ELSE {}

\* The declarators of a top-level statement that get_properties accepts
DeclaratorsWithObjectArgument(node) ==
    IF node.kind = "VariableDeclaration"
    THEN {j \in 1..Len(node.declarations) :
             ObjectArguments(node.declarations[j]) # {}}
    ELSE {}

NoProperties == [node |-> 0, decl |-> 0, arg |-> 0]

\* ast.rs:495-510: nested find_map: the first object-literal argument of
\* the first declarator with a new expression that has one, in the first
\* top-level declaration that has such a declarator
get_properties(body) ==
    LET nodes == {i \in 1..Len(body) :
                     DeclaratorsWithObjectArgument(body[i]) # {}}
    IN  IF nodes = {} THEN NoProperties
        ELSE LET i == Min(nodes)
                 j == Min(DeclaratorsWithObjectArgument(body[i]))
                 k == Min(ObjectArguments(body[i].declarations[j]))
             IN  [node |-> i, decl |-> j, arg |-> k]

\* ast.rs:597-610
get_property_by_key(property, key_name) ==
    property.kind = "ObjectProperty" /\ property.key = key_name

\* ast.rs:512-518: index of the first property keyed hooks, 0 when none
find_hooks_property(properties) ==
    LET S == {i \in 1..Len(properties) :
                 get_property_by_key(properties[i], "hooks")}
    IN  IF S = {} THEN 0 ELSE Min(S)

\* ast.rs:551-577
create_init_hooks == ObjectProperty("hooks", ObjectExpression(<<>>), FALSE)

\* ast.rs:295-311: the loop over names
RECURSIVE ExtendHookProperties(_, _)
ExtendHookProperties(properties, names) ==
    IF names = <<>> THEN properties
    ELSE IF \E i \in 1..Len(properties) :
               PropertyRefersTo(properties[i], Head(names))
    THEN ExtendHookProperties(properties, Tail(names))
    ELSE ExtendHookProperties(
             Append(properties, create_and_import_object_into_hook(Head(names))),
             Tail(names))

\* ast.rs:371-378: the retain predicate: a property with a static key
\* named in object_names goes, everything else stays
RetainHookProperty(object_names, property) ==
    IF property.kind = "ObjectProperty"
    THEN property.key \notin Range(object_names)
    ELSE TRUE

\* ast.rs:285-292 and 356-364: the value of the hooks property, created
\* empty at the end of the options when there is none
WithHooksProperty(properties) ==
    IF find_hooks_property(properties) = 0
    THEN Append(properties, create_init_hooks)
    ELSE properties

\* ast.rs:283-312: the options after the extension
ExtendOptions(options, names) ==
    LET properties == WithHooksProperty(options)
        at == find_hooks_property(properties)
        hooks_property == properties[at].value
    IN  IF hooks_property.type = "ObjectExpression"
        THEN [properties EXCEPT ![at].value =
                 ObjectExpression(
                     ExtendHookProperties(hooks_property.properties, names))]
        ELSE properties

\* ast.rs:354-379: the options after the removal
RemoveFromOptions(options, object_names) ==
    LET properties == WithHooksProperty(options)
        at == find_hooks_property(properties)
        hooks_obj == properties[at].value
        keep(property) == RetainHookProperty(object_names, property)
    IN  IF hooks_obj.type = "ObjectExpression"
        THEN [properties EXCEPT ![at].value =
                 ObjectExpression(SelectSeq(hooks_obj.properties, keep))]
        ELSE properties

\* The program with the properties at path p replaced
WithProperties(body, p, properties) ==
    [body EXCEPT ![p.node].declarations[p.decl].init.arguments[p.arg] =
        ObjectExpression(properties)]

PropertiesAt(body, p) ==
    body[p.node].declarations[p.decl].init.arguments[p.arg].properties

\* ast.rs:272-318: the program after the extension, before it is printed
ExtendHookBody(file_content, names) ==
    LET parsed == source_to_ast(file_content).value
        p == get_properties(parsed.body)
    IN  IF find_live_socket_node_from_ast(parsed).status = "error"
        THEN Err("liveSocket not found.")
        ELSE IF p = NoProperties
        THEN Err("properties not found in the AST.")
        ELSE Ok(WithProperties(parsed.body, p,
                    ExtendOptions(PropertiesAt(parsed.body, p), names)))

extend_hook_object_to_ast(file_content, names) ==
    LET done == ExtendHookBody(file_content, names)
    IN  IF done.status = "error" THEN done ELSE Ok(codegen(done.value))

\* ast.rs:343-385
remove_objects_of_hooks_from_ast(file_content, object_names) ==
    LET parsed == source_to_ast(file_content).value
        p == get_properties(parsed.body)
    IN  IF find_live_socket_node_from_ast(parsed).status = "error"
        THEN Err("liveSocket not found.")
        ELSE IF p = NoProperties
        THEN Err("properties not found in the AST.")
        ELSE Ok(codegen(WithProperties(parsed.body, p,
                    RemoveFromOptions(PropertiesAt(parsed.body, p),
                                      object_names))))

\* ast_ex.rs:89-105
find_live_socket_node_from_ast_nif(file_content) ==
    LET ast == source_to_ast(file_content)
    IN  IF ast.status = "error" THEN Err("Invalid JS file.")
        ELSE IF find_live_socket_node_from_ast(ast.value) = Ok(TRUE)
        THEN [status |-> "ok", value |-> TRUE]
        ELSE [status |-> "error", value |-> FALSE]

extend_hook_object_to_ast_nif(file_content, names) ==
    extend_hook_object_to_ast(file_content, names)

remove_objects_of_hooks_from_ast_nif(file_content, object_names) ==
    remove_objects_of_hooks_from_ast(file_content, object_names)

----------------------------------------------------------------------------
(* Hook-object extender and remover (phoenix.rs) *)

\* FindCondition: the tri-state result of the search
Found == [cond |-> "Found", reason |-> ""]
NotFound(reason) == [cond |-> "NotFound", reason |-> reason]
FoundError(reason) == [cond |-> "FoundError", reason |-> reason]

\* FindCondition::message: a message that names the condition and carries
\* its reason
message(find) == <<find.cond, find.reason>>

\* helpers.rs:14-51: parse_module fails on text the parser gives up on
parse(file_content) ==
    IF file_content.errors = "fatal"
    THEN Err("Failed to parse module")
    ELSE Ok(file_content.stmts)

\* helpers.rs:79-95
code_gen_from_ast_module(module) ==
    Text("none", "double", [i \in 1..Len(module) |-> PrintStatement(module[i])])

\* Prop::Shorthand(Ident::new(name))
Shorthand(name) == ObjectProperty(name, Identifier(name), TRUE)

\* phoenix.rs:34-49 and 113-128: index of the first key-value property
\* keyed hooks whose value is an object literal, 0 when none
HooksKeyValue(props) ==
    LET S == {i \in 1..Len(props) :
                 /\ props[i].kind = "ObjectProperty"
                 /\ ~props[i].shorthand
                 /\ props[i].key = "hooks"
                 /\ props[i].value.type = "ObjectExpression"}
    IN  IF S = {} THEN 0 ELSE Min(S)

\* phoenix.rs:52-68
already_exists(props, new_object) ==
    \E i \in 1..Len(props) :
        IF props[i].kind = "ObjectProperty"
        THEN props[i].shorthand /\ props[i].key = new_object
        ELSE /\ props[i].argument.type = "Identifier"
             /\ WithSpreadMarker(props[i].argument.name) = new_object

\* phoenix.rs:51-79: the loop over new_objects
RECURSIVE ExtendExistingHooks(_, _)
ExtendExistingHooks(props, new_objects) ==
    IF new_objects = <<>> THEN props
    ELSE IF already_exists(props, Head(new_objects))
    THEN ExtendExistingHooks(props, Tail(new_objects))
    ELSE ExtendExistingHooks(Append(props, Shorthand(Head(new_objects))),
                             Tail(new_objects))

\* phoenix.rs:82-95: a hooks object holding every requested name
CreateHooks(new_objects) ==
    ObjectExpression([i \in 1..Len(new_objects) |-> Shorthand(new_objects[i])])

\* phoenix.rs:33-106
extend_or_create_hooks(obj_expr, new_objects) ==
    LET at == HooksKeyValue(obj_expr.properties)
    IN  IF at # 0
        THEN ObjectExpression(
                 [obj_expr.properties EXCEPT ![at].value =
                     ObjectExpression(
                         ExtendExistingHooks(@.properties, new_objects))])
        ELSE ObjectExpression(
                 Append(obj_expr.properties,
                        ObjectProperty("hooks", CreateHooks(new_objects), FALSE)))

\* phoenix.rs:129-144: the retain predicate
RetainHookEntry(objects_to_remove, prop) ==
    IF prop.kind = "ObjectProperty"
    THEN (IF prop.shorthand THEN prop.key \notin Range(objects_to_remove)
          ELSE TRUE)
    ELSE (IF prop.argument.type = "Identifier"
          THEN WithSpreadMarker(prop.argument.name) \notin Range(objects_to_remove)
          ELSE TRUE)

\* phoenix.rs:108-146
remove_objects_from_hooks(obj_expr, objects_to_remove) ==
    LET at == HooksKeyValue(obj_expr.properties)
        keep(prop) == RetainHookEntry(objects_to_remove, prop)
    IN  IF at # 0
        THEN ObjectExpression(
                 [obj_expr.properties EXCEPT ![at].value =
                     ObjectExpression(SelectSeq(@.properties, keep))])
        ELSE obj_expr

\* The last argument of a new expression is an object literal
LastArgumentIsObject(init) ==
    /\ init.arguments # <<>>
    /\ init.arguments[Len(init.arguments)].type = "ObjectExpression"

\* phoenix.rs:153-175: one declarator of the loop; find is the condition
\* so far
VisitHookDeclarator(decl, find, new_objects) ==
    IF /\ decl.id = "liveSocket"
       /\ decl.init.type = "NewExpression"
       /\ decl.init.callee = "LiveSocket"
    THEN IF LastArgumentIsObject(decl.init)
         THEN [find |-> Found,
               decl |-> [decl EXCEPT
                   !.init.arguments[Len(decl.init.arguments)] =
                       extend_or_create_hooks(@, new_objects)]]
         ELSE [find |-> FoundError(""), decl |-> decl]
    ELSE [find |-> find, decl |-> decl]

\* phoenix.rs:150-180: the declarators of one declaration, in order
RECURSIVE visit_mut_var_decl(_, _, _)
visit_mut_var_decl(decls, find, new_objects) ==
    IF decls = <<>> THEN [find |-> find, decls |-> <<>>]
    ELSE LET first == VisitHookDeclarator(Head(decls), find, new_objects)
             rest  == visit_mut_var_decl(Tail(decls), first.find, new_objects)
         IN  [find |-> rest.find, decls |-> <<first.decl>> \o rest.decls]

\* module.visit_mut_with: every variable declaration of the module, nested
\* ones included, in source order
RECURSIVE visit_mut_with(_, _, _)
visit_mut_with(module, find, new_objects) ==
    IF module = <<>> THEN [find |-> find, module |-> <<>>]
    ELSE LET node == Head(module)
             first ==
                 IF node.kind = "VariableDeclaration"
                 THEN LET v == visit_mut_var_decl(node.declarations, find,
                                                  new_objects)
                      IN  [find |-> v.find,
                           node |-> VariableDeclaration(v.decls)]
                 ELSE IF node.kind = "BlockStatement"
                 THEN LET v == visit_mut_with(node.body, find, new_objects)
                      IN  [find |-> v.find, node |-> BlockStatement(v.module)]
                 ELSE [find |-> find, node |-> node]
             rest == visit_mut_with(Tail(module), first.find, new_objects)
         IN  [find |-> rest.find, module |-> <<first.node>> \o rest.module]

\* phoenix.rs:205-217 with helpers.rs:53-77: the module after the visit,
\* before it is printed
PhoenixExtendModule(file_content, new_objects) ==
    LET parsed == parse(file_content)
    IN  IF parsed.status = "error"
        THEN [find |-> NotFound(""), module |-> <<>>]
        ELSE visit_mut_with(parsed.value, NotFound(""), new_objects)

phoenix_extend_hook_object_to_ast(file_content, new_objects) ==
    LET visited == PhoenixExtendModule(file_content, new_objects)
    IN  IF visited.find = Found
        THEN Ok(code_gen_from_ast_module(visited.module))
        ELSE Err(message(visited.find))

\* phoenix.rs:219-227
phoenix_find_live_socket_node_from_ast(file_content) ==
    IF PhoenixExtendModule(file_content, <<>>).find = Found
    THEN Ok(TRUE)
    ELSE Err(FALSE)

\* phoenix.rs:259-274: the declarators of a top-level declaration
RemoveFromDeclarator(decl, objects_to_remove) ==
    IF decl.init.type = "NewExpression" /\ LastArgumentIsObject(decl.init)
    THEN [decl EXCEPT !.init.arguments[Len(decl.init.arguments)] =
             remove_objects_from_hooks(@, objects_to_remove)]
    ELSE decl

\* phoenix.rs:257-276: the loop over the top-level items
RemoveFromItem(item, objects_to_remove) ==
    IF item.kind = "VariableDeclaration"
    THEN VariableDeclaration(
             [i \in 1..Len(item.declarations) |->
                 RemoveFromDeclarator(item.declarations[i], objects_to_remove)])
    ELSE item

\* phoenix.rs:247-284
phoenix_remove_objects_of_hooks_from_ast(file_content, objects_to_remove) ==
    LET parsed == parse(file_content)
    IN  IF parsed.status = "error"
        THEN [status |-> "panic", value |-> "Failed to parse imports"]
        ELSE LET visited == visit_mut_with(parsed.value, NotFound(""), <<>>)
                 module  == [i \in 1..Len(visited.module) |->
                                RemoveFromItem(visited.module[i],
                                               objects_to_remove)]
             IN  IF visited.find = Found
                 THEN Ok(code_gen_from_ast_module(module))
                 ELSE Err(message(visited.find))

----------------------------------------------------------------------------
(* Inputs of the hook-object operations *)

HookEntries ==
    {Shorthand("A"), Shorthand("B"), SpreadProperty(Identifier("A")),
     ObjectProperty("A", NumericLiteral, FALSE)}

HooksProperty(entries) == ObjectProperty("hooks", ObjectExpression(entries), FALSE)
OtherOption == ObjectProperty("x", NumericLiteral, FALSE)

\* Options objects: without a hooks property, with a hooks object of up to
\* MaxProps entries in first or last place, and with a hooks property that
\* is not a key-value property holding an object literal
OptionsObjects ==
    {ObjectExpression(<<>>), ObjectExpression(<<OtherOption>>)}
    \cup {ObjectExpression(<<HooksProperty(e)>>) :
            e \in SeqsUpTo(HookEntries, MaxProps)}
    \cup {ObjectExpression(<<HooksProperty(e), OtherOption>>) :
            e \in SeqsUpTo(HookEntries, MaxProps)}
    \cup {ObjectExpression(<<OtherOption, HooksProperty(<<>>)>>),
          ObjectExpression(<<ObjectProperty("hooks", NumericLiteral, FALSE)>>),
          ObjectExpression(<<Shorthand("hooks")>>)}

LiveSocketCall(options) ==
    NewExpression("LiveSocket", <<Identifier("Socket"), options>>)

LightOptions == ObjectExpression(<<HooksProperty(<<Shorthand("A")>>)>>)

\* Declarators around the expected shape: the expected one, another
\* variable name, another constructor, an object literal, a call without
\* an object literal, and calls whose object literal is not the only or
\* not the last argument
LightHookDeclarators ==
    {VariableDeclarator("liveSocket", LiveSocketCall(LightOptions)),
     VariableDeclarator("other", LiveSocketCall(LightOptions)),
     VariableDeclarator("liveSocket",
         NewExpression("Other", <<Identifier("Socket"), LightOptions>>)),
     VariableDeclarator("liveSocket", ObjectExpression(<<>>)),
     VariableDeclarator("liveSocket",
         NewExpression("LiveSocket", <<Identifier("Socket")>>)),
     VariableDeclarator("liveSocket",
         NewExpression("LiveSocket", <<LightOptions, Identifier("Socket")>>)),
     VariableDeclarator("liveSocket",
         NewExpression("LiveSocket",
                       <<ObjectExpression(<<OtherOption>>), LightOptions>>))}

HookStatements ==
    {VariableDeclaration(<<d>>) : d \in LightHookDeclarators}
    \cup {BlockStatement(<<VariableDeclaration(
              <<VariableDeclarator("liveSocket", LiveSocketCall(LightOptions))>>)>>),
          ExpressionStatement(1)}

HookFiles ==
    {Text("none", "double",
          <<VariableDeclaration(
               <<VariableDeclarator("liveSocket", LiveSocketCall(o))>>)>>) :
        o \in OptionsObjects}
    \cup {Text("none", "double", s) : s \in SeqsUpTo(HookStatements, MaxDecls)}
    \cup {Text(e, "double",
               <<VariableDeclaration(
                    <<VariableDeclarator("liveSocket",
                                         LiveSocketCall(LightOptions))>>)>>) :
            e \in ErrorKinds \ {"none"}}

RequestedHookNames == {"A", WithSpreadMarker("A"), "B"}
HookNameLists == SeqsUpTo(RequestedHookNames, MaxNames)

----------------------------------------------------------------------------
(* Specification of the hook-object operations *)

InitHook ==
    /\ file \in HookFiles
    /\ call = NoCall
    /\ ret = NoRet
    /\ hook_extender = NoExtender

FindLiveSocket ==
    /\ call.op = "none"
    /\ call' = [op |-> "find_live_socket_node_from_ast", arg |-> <<>>]
    /\ ret' = find_live_socket_node_from_ast_nif(file)
    /\ UNCHANGED <<file, hook_extender>>

ExtendHook ==
    /\ call.op = "none"
    /\ \E names \in HookNameLists :
        /\ call' = [op |-> "extend_hook_object_to_ast", arg |-> names]
        /\ ret' = extend_hook_object_to_ast_nif(file, names)
        /\ UNCHANGED <<file, hook_extender>>

RemoveHook ==
    /\ call.op = "none"
    /\ \E object_names \in HookNameLists :
        /\ call' = [op |-> "remove_objects_of_hooks_from_ast", arg |-> object_names]
        /\ ret' = remove_objects_of_hooks_from_ast_nif(file, object_names)
        /\ UNCHANGED <<file, hook_extender>>

PhoenixFindLiveSocket ==
    /\ call.op = "none"
    /\ call' = [op |-> "phoenix::find_live_socket_node_from_ast", arg |-> <<>>]
    /\ ret' = phoenix_find_live_socket_node_from_ast(file)
    /\ UNCHANGED <<file, hook_extender>>

PhoenixExtendHook ==
    /\ call.op = "none"
    /\ \E new_objects \in HookNameLists :
        /\ call' = [op |-> "phoenix::extend_hook_object_to_ast", arg |-> new_objects]
        /\ ret' = phoenix_extend_hook_object_to_ast(file, new_objects)
        /\ UNCHANGED <<file, hook_extender>>

PhoenixRemoveHook ==
    /\ call.op = "none"
    /\ \E objects_to_remove \in HookNameLists :
        /\ call' = [op |-> "phoenix::remove_objects_of_hooks_from_ast",
                    arg |-> objects_to_remove]
        /\ ret' = phoenix_remove_objects_of_hooks_from_ast(file, objects_to_remove)
        /\ UNCHANGED <<file, hook_extender>>

NextHook ==
    \/ Return
    \/ ExtendHook
    \/ RemoveHook
    \/ PhoenixExtendHook
    \/ PhoenixRemoveHook

SpecHook == InitHook /\ [][NextHook]_vars

\* The probes alone
NextProbe ==
    \/ Return
    \/ FindLiveSocket
    \/ PhoenixFindLiveSocket

SpecProbe == InitHook /\ [][NextProbe]_vars

----------------------------------------------------------------------------
(* Specification of the extenders on sources around the expected shapes *)

\* Up to MaxDecls declarations of one declarator each, drawn from the
\* declarators of both extenders
ShapeFiles ==
    {Text("none", "double", body) :
        body \in SeqsUpTo({VariableDeclaration(<<d>>) :
                              d \in LightHookDeclarators \cup LightDeclarators},
                          MaxDecls)}

InitShape ==
    /\ file \in ShapeFiles
    /\ call = NoCall
    /\ ret = NoRet
    /\ hook_extender = NoExtender

NextShape ==
    \/ Return
    \/ ExtendHook
    \/ RemoveHook
    \/ PhoenixExtendHook
    \/ PhoenixRemoveHook
    \/ ExtendVarObject

SpecShape == InitShape /\ [][NextShape]_vars

----------------------------------------------------------------------------
(* One pass of the hook visitor of phoenix.rs, a step per assignment of   *)
(* find.  hook_extender is [pc, find, pending]: find is the field of the  *)
(* HookExtender, pending the declarators still to be visited and pc the   *)
(* place of the visitor: "loop" at the head of the loop of                *)
(* visit_mut_var_decl, "matched" after line 159, "done" after the visit.  *)

\* module.visit_mut_with: the declarators in the order the visitor meets
\* them, those of nested blocks included
RECURSIVE TraversalDeclarators(_)
TraversalDeclarators(module) ==
    IF module = <<>> THEN <<>>
    ELSE LET node == Head(module)
             first == IF node.kind = "VariableDeclaration"
                      THEN node.declarations
                      ELSE IF node.kind = "BlockStatement"
                      THEN TraversalDeclarators(node.body)
                      ELSE <<>>
         IN  first \o TraversalDeclarators(Tail(module))

\* phoenix.rs:23-31 followed by the parse: the extender at the start of the
\* visit of file_content
HookExtender_new(file_content) ==
    LET parsed == parse(file_content)
    IN  [pc |-> "loop",
         find |-> NotFound(""),
         pending |-> IF parsed.status = "error" THEN <<>>
                     ELSE TraversalDeclarators(parsed.value)]

\* phoenix.rs:153-158: the declarator binds the target name to a
\* new LiveSocket(...) expression
IsLiveSocketDeclarator(decl) ==
    /\ decl.id = "liveSocket"
    /\ decl.init.type = "NewExpression"
    /\ decl.init.callee = "LiveSocket"

\* phoenix.rs:209 and 251
PhoenixExtendBegin ==
    /\ call.op = "none"
    /\ \E new_objects \in HookNameLists :
        call' = [op |-> "phoenix::extend_hook_object_to_ast", arg |-> new_objects]
    /\ hook_extender' = HookExtender_new(file)
    /\ UNCHANGED <<file, ret>>

PhoenixRemoveBegin ==
    /\ call.op = "none"
    /\ \E objects_to_remove \in HookNameLists :
        call' = [op |-> "phoenix::remove_objects_of_hooks_from_ast",
                 arg |-> objects_to_remove]
    /\ hook_extender' = HookExtender_new(file)
    /\ UNCHANGED <<file, ret>>

\* phoenix.rs:152-159: the next declarator of the loop; a declarator of
\* the expected name and constructor sets find to FoundError
VisitHookDeclaratorStep ==
    /\ hook_extender.pc = "loop"
    /\ hook_extender.pending # <<>>
    /\ hook_extender' =
           IF IsLiveSocketDeclarator(Head(hook_extender.pending))
           THEN [hook_extender EXCEPT !.pc = "matched",
                                      !.find = FoundError("")]
           ELSE [hook_extender EXCEPT !.pending = Tail(@)]
    /\ UNCHANGED <<file, call, ret>>

\* phoenix.rs:161-169: a trailing object literal sets find to Found
VisitHookArgumentsStep ==
    /\ hook_extender.pc = "matched"
    /\ hook_extender' =
           [hook_extender EXCEPT
               !.pc = "loop",
               !.find = IF LastArgumentIsObject(Head(hook_extender.pending).init)
                        THEN Found ELSE @,
               !.pending = Tail(@)]
    /\ UNCHANGED <<file, call, ret>>

\* phoenix.rs:211-216 and 278-283: find is read after the visit
PassEnd ==
    /\ hook_extender.pc = "loop"
    /\ hook_extender.pending = <<>>
    /\ hook_extender' = [hook_extender EXCEPT !.pc = "done"]
    /\ ret' = IF call.op = "phoenix::extend_hook_object_to_ast"
              THEN phoenix_extend_hook_object_to_ast(file, call.arg)
              ELSE phoenix_remove_objects_of_hooks_from_ast(file, call.arg)
    /\ UNCHANGED <<file, call>>

NextPass ==
    \/ Return
    \/ PhoenixExtendBegin
    \/ PhoenixRemoveBegin
    \/ VisitHookDeclaratorStep
    \/ VisitHookArgumentsStep
    \/ PassEnd

SpecPass == InitHook /\ [][NextPass]_vars

----------------------------------------------------------------------------
(* Statistics collector (ast_statistics.rs) *)

\* Statements and expressions the collector counts, and the ones that
\* hold them
DebuggerStatement == [kind |-> "DebuggerStatement"]
ThrowStatement == [kind |-> "ThrowStatement"]
TryStatement(block, handler) ==
    [kind |-> "TryStatement", block |-> block, handler |-> handler]
FunctionDeclaration(body) == [kind |-> "FunctionDeclaration", body |-> body]
FunctionExpression(body) == [type |-> "FunctionExpression", body |-> body]
MethodDefinition(kind, body) == [kind |-> kind, value |-> FunctionExpression(body)]
ClassDeclaration(body) == [kind |-> "ClassDeclaration", body |-> body]
ClassExpression(body) == [type |-> "ClassExpression", body |-> body]
\* A statement that evaluates an expression
EvaluateStatement(expression) ==
    [kind |-> "ExpressionStatement", expression |-> expression]

\* ast_statistics.rs:33-41: ASTStatistics::default()
ASTStatistics ==
    [functions |-> 0, classes |-> 0, debuggers |-> 0,
     imports |-> 0, trys |-> 0, throws |-> 0]

\* self.<counter> += 1
Increment(self, counter) == [self EXCEPT ![counter] = @ + 1]

RECURSIVE visit_statements(_, _)
RECURSIVE visit_statement(_, _)
RECURSIVE visit_expression(_, _)
RECURSIVE visit_class_elements(_, _)
RECURSIVE visit_function(_, _)
RECURSIVE visit_class(_, _)

\* walk::walk_function: the statements of the function body
walk_function(self, func) == visit_statements(self, func.body)

\* walk::walk_class: the elements of the class body
walk_class(self, class) == visit_class_elements(self, class.body)

\* ast_statistics.rs:72-75
visit_function_without_walk(self, func) == Increment(self, "functions")
visit_function(self, func) == walk_function(Increment(self, "functions"), func)

\* ast_statistics.rs:77-80
visit_class_without_walk(self, class) == Increment(self, "classes")
visit_class(self, class) == walk_class(Increment(self, "classes"), class)

\* ast_statistics.rs:82-85
visit_debugger_statement(self, it) == Increment(self, "debuggers")

\* ast_statistics.rs:87-90
visit_import_declaration(self, it) == Increment(self, "imports")

\* ast_statistics.rs:92-95: the block and the handler are walked
visit_try_statement(self, it) ==
    visit_statements(visit_statements(Increment(self, "trys"), it.block),
                     it.handler)

\* ast_statistics.rs:97-100
visit_throw_statement(self, it) == Increment(self, "throws")

\* A method or constructor is visited as the function it holds
visit_class_elements(self, elements) ==
    IF elements = <<>> THEN self
    ELSE visit_class_elements(visit_function(self, Head(elements).value),
                              Tail(elements))

\* Function and class expressions are functions and classes; an arrow
\* function is neither
visit_expression(self, expr) ==
    IF expr.type = "FunctionExpression" THEN visit_function(self, expr)
    ELSE IF expr.type = "ClassExpression" THEN visit_class(self, expr)
    ELSE self

visit_statement(self, node) ==
    IF node.kind = "FunctionDeclaration" THEN visit_function(self, node)
    ELSE IF node.kind = "ClassDeclaration" THEN visit_class(self, node)
    ELSE IF node.kind = "DebuggerStatement"
    THEN visit_debugger_statement(self, node)
    ELSE IF node.kind = "ImportDeclaration"
    THEN visit_import_declaration(self, node)
    ELSE IF node.kind = "TryStatement" THEN visit_try_statement(self, node)
    ELSE IF node.kind = "ThrowStatement" THEN visit_throw_statement(self, node)
    ELSE IF node.kind = "ExpressionStatement" /\ "expression" \in DOMAIN node
    THEN visit_expression(self, node.expression)
    ELSE self

visit_statements(self, stmts) ==
    IF stmts = <<>> THEN self
    ELSE visit_statements(visit_statement(self, Head(stmts)), Tail(stmts))

\* visit_program
visit_program(self, body) == visit_statements(self, body)

\* ast_statistics.rs:59-69
source_visitor(file_content) ==
    LET parsed == source_to_ast(file_content).value
    IN  IF parsed.errors THEN Err("Failed to parse source")
        ELSE Ok(visit_program(ASTStatistics, parsed.body))

\* ast_ex.rs:141-155
statistics_from_ast_nif(file_content) == source_visitor(file_content)

----------------------------------------------------------------------------
(* Inputs of the statistics collector *)

MaxNodes == 2

\* Bodies of functions, methods and blocks
StatBodies ==
    {<<>>, <<DebuggerStatement>>, <<DebuggerStatement, DebuggerStatement>>,
     <<ThrowStatement>>, <<FunctionDeclaration(<<>>)>>,
     <<ClassDeclaration(<<>>)>>}

ClassBodies ==
    {<<>>,
     <<MethodDefinition("constructor", <<DebuggerStatement>>)>>,
     <<MethodDefinition("constructor", <<>>),
       MethodDefinition("method", <<FunctionDeclaration(<<>>)>>)>>}

\* Statements other than imports, which stand at the head of a module
StatStatements ==
    {DebuggerStatement, ThrowStatement, ExpressionStatement(1)}
    \cup {FunctionDeclaration(b) : b \in StatBodies}
    \cup {ClassDeclaration(b) : b \in ClassBodies}
    \cup {TryStatement(<<DebuggerStatement>>, <<>>),
          TryStatement(<<ThrowStatement>>, <<DebuggerStatement>>)}
    \cup {EvaluateStatement(FunctionExpression(<<DebuggerStatement>>)),
          EvaluateStatement(ClassExpression(<<>>)),
          EvaluateStatement(ArrowFunctionExpression)}

StatImports ==
    {<<>>,
     <<ImportDeclaration("mod", "{ foo }")>>,
     <<ImportDeclaration("mod", "{ foo }"), ImportDeclaration("other", "bar")>>}

StatFiles ==
    {Text("none", "double", i \o s) :
        i \in StatImports, s \in SeqsUpTo(StatStatements, MaxNodes)}
    \cup {Text(e, "double", <<DebuggerStatement>>) : e \in ErrorKinds \ {"none"}}

----------------------------------------------------------------------------
(* Specification of the statistics collector *)

InitStat ==
    /\ file \in StatFiles
    /\ call = NoCall
    /\ ret = NoRet
    /\ hook_extender = NoExtender

Statistics ==
    /\ call.op = "none"
    /\ call' = [op |-> "statistics_from_ast", arg |-> <<>>]
    /\ ret' = statistics_from_ast_nif(file)
    /\ UNCHANGED <<file, hook_extender>>

NextStat ==
    \/ Return
    \/ Statistics

SpecStat == InitStat /\ [][NextStat]_vars

----------------------------------------------------------------------------
(* Strings *)

\* str::contains
Contains(s, t) ==
    \E i \in 0..(Len(s) - Len(t)) : SubSeq(s, i + 1, i + Len(t)) = t

\* str::starts_with and str::ends_with
StartsWith(s, t) == Len(s) >= Len(t) /\ SubSeq(s, 1, Len(t)) = t
EndsWith(s, t) == Len(s) >= Len(t) /\ SubSeq(s, Len(s) - Len(t) + 1, Len(s)) = t

\* str::trim_start_matches and str::trim_end_matches: the pattern is
\* removed as often as it stands at that end
RECURSIVE trim_start_matches(_, _)
trim_start_matches(s, t) ==
    IF StartsWith(s, t) /\ Len(t) > 0
    THEN trim_start_matches(SubSeq(s, Len(t) + 1, Len(s)), t)
    ELSE s
RECURSIVE trim_end_matches(_, _)
trim_end_matches(s, t) ==
    IF EndsWith(s, t) /\ Len(t) > 0
    THEN trim_end_matches(SubSeq(s, 1, Len(s) - Len(t)), t)
    ELSE s

\* str::trim_matches
trim_matches(s, t) == trim_end_matches(trim_start_matches(s, t), t)

\* str::trim: white space is removed at both ends
trim(s) == trim_matches(s, " ")

----------------------------------------------------------------------------
(* Stylesheets (css/ast.rs, css/helpers.rs) *)

\* A stylesheet text is [errors, rules].  Comments are kept with the node
\* at whose start (leading) or end (trailing) position the parser filed
\* them: `leading` is comments.get_leading(span.lo) and `trailing` is
\* comments.get_trailing(span.hi) of that node.
CssText(e, rules) == [errors |-> e, rules |-> rules]

Str(value) == [type |-> "Str", value |-> value]
Url(value) == [type |-> "Url", value |-> value]
ImportPrelude(href) == [type |-> "ImportPrelude", href |-> href]

\* A declaration `name: value` or `name: value !important`
Declaration(name, value, important, trailing) ==
    [type |-> "Declaration", name |-> name, value |-> value,
     important |-> important, trailing |-> trailing]

PseudoClassSelector(name, trailing) ==
    [type |-> "PseudoClassSelector", name |-> name,
     leading |-> <<>>, trailing |-> trailing]
PseudoElementSelector(name, leading, trailing) ==
    [type |-> "PseudoElementSelector", name |-> name,
     leading |-> leading, trailing |-> trailing]

\* A selector: a type selector followed by pseudo selectors
Selector(tag, pseudos) == [tag |-> tag, pseudos |-> pseudos]

QualifiedRule(prelude, block, leading, trailing) ==
    [type |-> "QualifiedRule", prelude |-> prelude, block |-> block,
     leading |-> leading, trailing |-> trailing]

AtRule(name, prelude, block, leading, trailing) ==
    [type |-> "AtRule", name |-> name, prelude |-> prelude, block |-> block,
     leading |-> leading, trailing |-> trailing]

\* css/helpers.rs:10-34
css_parse(file_content) ==
    IF file_content.errors = "fatal"
    THEN Err("Failed to parse CSS")
    ELSE Ok(file_content.rules)

\* What the code generator writes for a node, one string per line
RECURSIVE Indent(_)
Indent(n) == IF n = 0 THEN "" ELSE "  " \o Indent(n - 1)

EmitDeclaration(decl) ==
    decl.name \o ": " \o decl.value
        \o (IF decl.important THEN " !important" ELSE "")

RECURSIVE EmitPseudos(_)
EmitPseudos(pseudos) ==
    IF pseudos = <<>> THEN ""
    ELSE (IF Head(pseudos).type = "PseudoElementSelector" THEN "::" ELSE ":")
            \o Head(pseudos).name \o EmitPseudos(Tail(pseudos))

EmitHref(href) ==
    IF href.type = "Url" THEN "url(\"" \o href.value \o "\")"
    ELSE "\"" \o href.value \o "\""

RECURSIVE EmitRule(_, _)
RECURSIVE EmitBlock(_, _)
EmitBlock(block, n) ==
    IF block = <<>> THEN <<>>
    ELSE (IF Head(block).type = "Declaration"
          THEN <<Indent(n) \o EmitDeclaration(Head(block)) \o ";">>
          ELSE EmitRule(Head(block), n))
         \o EmitBlock(Tail(block), n)
EmitRule(rule, n) ==
    IF rule.type = "QualifiedRule"
    THEN <<Indent(n) \o rule.prelude.tag \o EmitPseudos(rule.prelude.pseudos)
              \o " {">>
         \o EmitBlock(rule.block, n + 1) \o <<Indent(n) \o "}">>
    ELSE IF rule.prelude.type = "ImportPrelude"
    THEN <<Indent(n) \o "@" \o rule.name \o " " \o EmitHref(rule.prelude.href)
              \o ";">>
    ELSE <<Indent(n) \o "@" \o rule.name \o " ("
              \o EmitDeclaration(rule.prelude) \o ") {">>
         \o EmitBlock(rule.block, n + 1) \o <<Indent(n) \o "}">>

----------------------------------------------------------------------------
(* Comment placement (css/ast.rs) *)

\* format!(" /* {} */", comment.text)
InlineComment(text) == " /* " \o text \o " */"

\* One (anchor, inline comment) pair per comment of the list
Collected(prop, comment_list) ==
    [i \in 1..Len(comment_list) |-> <<prop, InlineComment(comment_list[i])>>]

\* css/ast.rs:188-197: the comments at the end of the value; the value's
\* children are not visited
visit_component_value(node) == Collected("", node.trailing)

\* The comments at the end of the last component of a declaration's value,
\* which is the end of the declaration unless `!important` follows
ValueTrailing(decl) == IF decl.important THEN <<>> ELSE decl.trailing

\* css/ast.rs:172-186
visit_declaration(decl) ==
    Collected(decl.name, decl.trailing) \o Collected("", ValueTrailing(decl))

\* css/ast.rs:199-219
visit_pseudo_element_selector(node) ==
    Collected("::" \o node.name, node.leading)
        \o Collected("::" \o node.name, node.trailing)

\* css/ast.rs:221-231
visit_pseudo_class_selector(node) == Collected(":" \o node.name, node.trailing)

RECURSIVE visit_selector(_)
visit_selector(pseudos) ==
    IF pseudos = <<>> THEN <<>>
    ELSE (IF Head(pseudos).type = "PseudoElementSelector"
          THEN visit_pseudo_element_selector(Head(pseudos))
          ELSE visit_pseudo_class_selector(Head(pseudos)))
         \o visit_selector(Tail(pseudos))

\* The values of a block: declarations and nested rules are component
\* values of the block
RECURSIVE visit_simple_block(_)
visit_simple_block(block) ==
    IF block = <<>> THEN <<>>
    ELSE visit_component_value(Head(block)) \o visit_simple_block(Tail(block))

\* css/ast.rs:249-253: rule.visit_with(&mut comment_collector); a
\* declaration standing in the prelude of an at-rule is visited as a
\* declaration
collected_comments(rule) ==
    IF rule.type = "QualifiedRule"
    THEN visit_selector(rule.prelude.pseudos) \o visit_simple_block(rule.block)
    ELSE IF rule.prelude.type = "Declaration"
    THEN visit_declaration(rule.prelude) \o visit_simple_block(rule.block)
    ELSE <<>>

\* rule_lines.iter().position(|line| line.contains(pattern)), 0 for None
position(rule_lines, pattern) ==
    LET S == {i \in 1..Len(rule_lines) : Contains(rule_lines[i], pattern)}
    IN  IF S = {} THEN 0 ELSE Min(S)

\* css/ast.rs:266-281: one pair of the loop
AttachCommentUnguarded(rule_lines, pair) ==
    LET prop == pair[1]
        idx  == position(rule_lines,
                         IF StartsWith(prop, ":") THEN prop ELSE prop \o ":")
    IN  IF idx # 0 THEN [rule_lines EXCEPT ![idx] = @ \o pair[2]]
        ELSE rule_lines
AttachComment(rule_lines, pair) ==
    LET prop == pair[1]
        inline_comment == pair[2]
        idx  == position(rule_lines,
                         IF StartsWith(prop, ":") THEN prop ELSE prop \o ":")
    IN  IF idx # 0 /\ ~Contains(rule_lines[idx], trim(inline_comment))
        THEN [rule_lines EXCEPT ![idx] = @ \o inline_comment]
        ELSE rule_lines

\* css/ast.rs:265-282: the loop over collected_comments.iter().rev()
RECURSIVE AttachComments(_, _)
AttachComments(rule_lines, collected) ==
    IF collected = <<>> THEN rule_lines
    ELSE AttachComments(AttachComment(rule_lines, collected[Len(collected)]),
                        SubSeq(collected, 1, Len(collected) - 1))

\* css/ast.rs:242-291: the lines of one rule with its comments
RuleWithComments(rule) ==
    rule.leading
        \o AttachComments(EmitRule(rule, 0), collected_comments(rule))
        \o rule.trailing

RECURSIVE RulesWithComments(_)
RulesWithComments(rules) ==
    IF rules = <<>> THEN <<>>
    ELSE RuleWithComments(Head(rules)) \o RulesWithComments(Tail(rules))

\* css/ast.rs:234-295: the lines of formatted_output.trim()
generate_css_with_comments(rules) ==
    LET output == RulesWithComments(rules)
    IN  IF output = <<>> THEN <<>>
        ELSE [output EXCEPT ![1] = trim_start_matches(@, " "),
                            ![Len(output)] = trim_end_matches(@, " ")]

----------------------------------------------------------------------------
(* Stylesheet import inserter (css/ast.rs) *)

IsImportRule(rule) ==
    rule.type = "AtRule" /\ rule.prelude.type = "ImportPrelude"

\* css/ast.rs:73-92: the specifiers of the @import rules of the stylesheet
existing_imports(rules) ==
    {rules[i].prelude.href.value :
        i \in {j \in 1..Len(rules) : IsImportRule(rules[j])}}

\* css/ast.rs:96-100
cleaned_import(import_path) ==
    trim_matches(
        trim_end_matches(trim(trim_start_matches(import_path, "@import")), ";"),
        "\"")

\* css/ast.rs:119-134
ImportRule(cleaned) ==
    AtRule("import", ImportPrelude(Str(cleaned)), <<>>, <<>>, <<>>)

\* css/ast.rs:95-116: the loop over new_import_strings
RECURSIVE new_imports(_, _)
new_imports(new_import_strings, existing) ==
    IF new_import_strings = <<>> THEN <<>>
    ELSE LET cleaned == cleaned_import(Head(new_import_strings))
         IN  (IF cleaned \notin existing THEN <<ImportRule(cleaned)>> ELSE <<>>)
             \o new_imports(Tail(new_import_strings), existing)

\* css/ast.rs:71-139
visit_mut_stylesheet(rules, new_import_strings) ==
    new_imports(new_import_strings, existing_imports(rules)) \o rules

\* css/ast.rs:148-152: the trimmed lines that are not empty, as a set
TrimmedLines(import_lines) ==
    {trim(import_lines[i]) : i \in 1..Len(import_lines)} \ {""}

\* css/ast.rs:152-154: HashSet::into_iter yields the elements in an order
\* that depends on the hasher's per-instance random keys
IterationOrders(S) ==
    {order \in [1..Cardinality(S) -> S] : Range(order) = S}

\* css/ast.rs:142-163, for one iteration order of the set of lines
css_insert_import_to_ast(file_content, import_lines, new_import_strings) ==
    LET parsed == css_parse(file_content)
    IN  IF parsed.status = "error" THEN parsed
        ELSE Ok(generate_css_with_comments(
                    visit_mut_stylesheet(parsed.value, new_import_strings)))

----------------------------------------------------------------------------
(* Inputs of the stylesheet operations *)

CssSpecifiers == {"a.css", "b.css"}

\* An @import line as a caller may write it
ImportLineText(before, specifier, semicolon, after) ==
    before \o "@import \"" \o specifier \o "\"" \o semicolon \o after

\* Lines for a.css with and without semicolon and surrounding white space,
\* a line for b.css, a bare specifier and a blank line
CssImportLines ==
    {ImportLineText("", "a.css", ";", ""),
     ImportLineText("", "a.css", "", ""),
     ImportLineText("  ", "a.css", ";", " "),
     ImportLineText("", "b.css", ";", ""),
     "b.css",
     " "}

CssImportBatches == SeqsUpTo(CssImportLines, MaxLines)

BodyRule ==
    QualifiedRule(Selector("body", <<>>),
                  <<Declaration("color", "black", FALSE, <<>>)>>, <<>>, <<>>)

\* @import "a.css"; @import url("a.css"); @import "b.css"; body { .. }
CssImportRules ==
    {AtRule("import", ImportPrelude(Str("a.css")), <<>>, <<>>, <<>>),
     AtRule("import", ImportPrelude(Url("a.css")), <<>>, <<>>, <<>>),
     AtRule("import", ImportPrelude(Str("b.css")), <<>>, <<>>, <<>>),
     BodyRule}

CssImportFiles ==
    {CssText("none", r) : r \in SeqsUpTo(CssImportRules, MaxModules)}
    \cup {CssText(e, <<BodyRule>>) : e \in ErrorKinds \ {"none"}}

CommentTexts == {"c1", "c2"}
CommentLists == {<<>>} \cup {<<c>> : c \in CommentTexts}

CssDeclarations ==
    {Declaration(n, "red", FALSE, t) :
        n \in {"color", "background-color"}, t \in CommentLists}
    \cup {Declaration("color", "red", TRUE, <<"c1">>)}

CssSelectors ==
    {Selector("a", <<>>)}
    \cup {Selector("a", <<PseudoClassSelector("hover", t)>>) :
            t \in {<<>>, <<"c1">>}}
    \cup {Selector("a", <<PseudoElementSelector("before", <<>>, t)>>) :
            t \in {<<>>, <<"c1">>}}
    \cup {Selector("a", <<PseudoElementSelector("before", <<"c1">>, <<"c1">>)>>)}

\* Rules with comments: qualified rules of up to MaxProps declarations,
\* @supports rules whose feature is a declaration, and rules with comments
\* before and after them
CssCommentRules ==
    {QualifiedRule(sel, block, <<>>, <<>>) :
        sel \in CssSelectors, block \in SeqsUpTo(CssDeclarations, MaxProps)}
    \cup {AtRule("supports", Declaration("display", "grid", i, t), block,
                 <<>>, <<>>) :
            i \in BOOLEAN, t \in CommentLists,
            block \in {<<>>,
                       <<QualifiedRule(Selector("a", <<>>),
                            <<Declaration("color", "red", FALSE, <<"c2">>)>>,
                            <<>>, <<"c1">>)>>}}
    \cup {QualifiedRule(Selector("a", <<>>),
                        <<Declaration("color", "red", FALSE, <<"c1">>)>>,
                        l, t) :
            l \in CommentLists, t \in CommentLists}

CssCommentFiles == {CssText("none", <<rule>>) : rule \in CssCommentRules}

\* No line, or one line
CssLightBatches == {<<>>, <<ImportLineText("", "a.css", ";", "")>>}

----------------------------------------------------------------------------
(* Specification of the stylesheet import inserter *)

InitCss ==
    /\ file \in CssImportFiles
    /\ call = NoCall
    /\ ret = NoRet
    /\ hook_extender = NoExtender

CssInsertImport ==
    /\ call.op = "none"
    /\ \E import_lines \in CssImportBatches :
        \E new_import_strings \in IterationOrders(TrimmedLines(import_lines)) :
            /\ call' = [op |-> "css::insert_import_to_ast", arg |-> import_lines]
            /\ ret' = css_insert_import_to_ast(file, import_lines,
                                               new_import_strings)
            /\ UNCHANGED <<file, hook_extender>>

\* The host repeats the call it made, with the same arguments
CssInsertImportAgain ==
    /\ call.op = "css::insert_import_to_ast"
    /\ \E new_import_strings \in IterationOrders(TrimmedLines(call.arg)) :
        /\ ret' = css_insert_import_to_ast(file, call.arg, new_import_strings)
        /\ UNCHANGED <<file, call, hook_extender>>

NextCss ==
    \/ Return
    \/ CssInsertImport
    \/ CssInsertImportAgain

SpecCss == InitCss /\ [][NextCss]_vars

----------------------------------------------------------------------------
(* Specification of the comment placement *)

InitCssComment ==
    /\ file \in CssCommentFiles
    /\ call = NoCall
    /\ ret = NoRet
    /\ hook_extender = NoExtender

\* The inserter called with no line or one line
CssInsertImportLight ==
    /\ call.op = "none"
    /\ \E import_lines \in CssLightBatches :
        \E new_import_strings \in IterationOrders(TrimmedLines(import_lines)) :
            /\ call' = [op |-> "css::insert_import_to_ast", arg |-> import_lines]
            /\ ret' = css_insert_import_to_ast(file, import_lines,
                                               new_import_strings)
            /\ UNCHANGED <<file, hook_extender>>

NextCssComment ==
    \/ Return
    \/ CssInsertImportLight

SpecCssComment == InitCssComment /\ [][NextCssComment]_vars

----------------------------------------------------------------------------
(* Properties of the import manager *)

\* A line that spells exactly one import declaration and parses cleanly
IsImportLine(line) ==
    /\ line.errors = "none"
    /\ Len(line.stmts) = 1
    /\ IsImport(line.stmts[1])

ImportedModules(stmts) ==
    {stmts[i].source : i \in {j \in 1..Len(stmts) : IsImport(stmts[j])}}

\* Index of the last import declaration, 0 when there is none
LastImport(stmts) ==
    LET S == {i \in 1..Len(stmts) : IsImport(stmts[i])}
    IN  IF S = {} THEN 0 ELSE CHOOSE i \in S : \A j \in S : j <= i

InsertCalled == call.op = "insert_import_to_ast"
RemoveCalled == call.op = "remove_import_from_ast"

\* C1: inserting import lines whose module specifiers are all imported
\* already leaves the statement list unchanged, whatever their bindings;
\* and inserting the same lines into the result of a successful insertion
\* gives that result again: insert(insert(T,S),S) = insert(T,S).
C1_InsertIdempotent ==
    InsertCalled =>
        /\ ( /\ file.errors = "none"
             /\ call.arg # <<>>
             /\ \A k \in 1..Len(call.arg) :
                    /\ IsImportLine(call.arg[k])
                    /\ call.arg[k].stmts[1].source \in ImportedModules(file.stmts) )
           => (ret.status = "ok" /\ ret.value.stmts = file.stmts)
        /\ (ret.status = "ok") =>
               insert_import_to_ast_nif(ret.value, call.arg) = ret

C1_Witness ==
    /\ InsertCalled
    /\ file.errors = "none"
    /\ ret.status = "ok"
    /\ Len(call.arg) = 1
    /\ IsImportLine(call.arg[1])
    /\ \E i \in 1..Len(file.stmts) :
          /\ IsImport(file.stmts[i])
          /\ file.stmts[i].source = call.arg[1].stmts[1].source
    /\ \A i \in 1..Len(file.stmts) :
          IsImport(file.stmts[i]) =>
              file.stmts[i].specifiers # call.arg[1].stmts[1].specifiers

\* A batch of import lines for pairwise different modules, none of them
\* imported by stmts
NonDuplicateBatch(batch, stmts) ==
    /\ \A k \in 1..Len(batch) :
          /\ IsImportLine(batch[k])
          /\ batch[k].stmts[1].source \notin ImportedModules(stmts)
    /\ \A k, l \in 1..Len(batch) :
          k # l => batch[k].stmts[1].source # batch[l].stmts[1].source

\* C2: a batch of non-duplicate import lines ends up contiguous, in the
\* order given, directly after the last original import (at index 0 when
\* the module has no import), and the original statements keep their order.
C2_InsertAfterLastImport ==
    (InsertCalled /\ file.errors = "none"
        /\ NonDuplicateBatch(call.arg, file.stmts)) =>
        LET old == file.stmts
            p   == LastImport(old)
            new == [k \in 1..Len(call.arg) |-> call.arg[k].stmts[1]]
        IN  /\ ret.status = "ok"
            /\ ret.value.stmts =
                   SubSeq(old, 1, p) \o new \o SubSeq(old, p + 1, Len(old))

C2_Witness ==
    /\ InsertCalled
    /\ file.errors = "none"
    /\ NonDuplicateBatch(call.arg, file.stmts)
    /\ Len(call.arg) = 2
    /\ LastImport(file.stmts) = 2
    /\ Len(file.stmts) = 3
    /\ ~IsImport(file.stmts[1])
    /\ ret.status = "ok"
    /\ ret.value.stmts[3] = call.arg[1].stmts[1]
    /\ ret.value.stmts[4] = call.arg[2].stmts[1]

\* The statements of stmts that are not imports of a module in mods
RECURSIVE WithoutImportsOf(_, _)
WithoutImportsOf(stmts, mods) ==
    IF stmts = <<>> THEN <<>>
    ELSE IF IsImport(Head(stmts)) /\ Head(stmts).source \in mods
    THEN WithoutImportsOf(Tail(stmts), mods)
    ELSE <<Head(stmts)>> \o WithoutImportsOf(Tail(stmts), mods)

\* C3: remove_import_from_ast removes every import declaration whose
\* module specifier is in the removal set and nothing else; the remaining
\* statements keep their relative order.
C3_RemoveOnlyNamedImports ==
    (RemoveCalled /\ file.errors = "none") =>
        /\ ret.status = "ok"
        /\ ret.value.stmts = WithoutImportsOf(file.stmts, Range(call.arg))

C3_Witness ==
    /\ RemoveCalled
    /\ file.errors = "none"
    /\ Len(file.stmts) = 3
    /\ \A i \in 1..3 : IsImport(file.stmts[i])
    /\ file.stmts[2].source \in Range(call.arg)
    /\ file.stmts[1].source \notin Range(call.arg)
    /\ file.stmts[3].source \notin Range(call.arg)
    /\ ret.status = "ok"
    /\ ret.value.stmts = <<file.stmts[1], file.stmts[3]>>

ImportLineErrors ==
    {"Failed to parse import line",
     "No import declaration found in parsed import line"}

\* A line that fails to parse or holds no import declaration
IsBadLine(line) ==
    \/ line.errors # "none"
    \/ \A i \in 1..Len(line.stmts) : ~IsImport(line.stmts[i])

\* C4: when some line of the batch fails to parse or holds no import
\* declaration, the whole call returns an error message and no text,
\* also when earlier lines of the batch were valid.
C4_BadLineAbortsBatch ==
    (InsertCalled /\ \E k \in 1..Len(call.arg) : IsBadLine(call.arg[k])) =>
        /\ ret.status = "error"
        /\ ret.value \in ImportLineErrors

C4_Witness ==
    /\ InsertCalled
    /\ file.errors = "none"
    /\ Len(call.arg) = 2
    /\ IsImportLine(call.arg[1])
    /\ call.arg[1].stmts[1].source \notin ImportedModules(file.stmts)
    /\ IsBadLine(call.arg[2])
    /\ ret.status = "error"

\* C5: every operation called with source text that is not syntactically
\* valid returns an error value.
C5_InvalidSourceIsError ==
    (call.op # "none" /\ file.errors # "none") => ret.status = "error"

\* C6: the import query returns true exactly when some import declaration
\* has the queried module specifier, and for a module that is not imported
\* it returns the successful result false.
C6_ImportQueryExact ==
    (call.op \in {"is_module_imported_from_ast",
                  "is_module_imported_from_ast_nif"}
        /\ file.errors = "none") =>
        /\ ret.status = "ok"
        /\ ret.value = (call.arg \in ImportedModules(file.stmts))

----------------------------------------------------------------------------
(* Properties of the named-object extender *)

ExtendVarCalled == call.op = "extend_var_object_property_by_names_to_ast"

\* Every declarator of the source, nested ones included, in source order
RECURSIVE AllDeclarators(_)
AllDeclarators(stmts) ==
    IF stmts = <<>> THEN <<>>
    ELSE LET node == Head(stmts)
         IN  (IF node.kind = "VariableDeclaration" THEN node.declarations
              ELSE IF node.kind = "BlockStatement" THEN AllDeclarators(node.body)
              ELSE <<>>)
             \o AllDeclarators(Tail(stmts))

BindsObject(decl, name) ==
    decl.id = name /\ decl.init.type = "ObjectExpression"

\* The key of an entry: the property key, or the spread argument with the
\* spread marker in front
EntryKey(prop) ==
    IF prop.kind = "SpreadProperty"
    THEN (IF prop.argument.type = "Identifier"
          THEN WithSpreadMarker(prop.argument.name) ELSE SpreadMarker)
    ELSE prop.key

EntryKeys(props) == {EntryKey(props[i]) : i \in 1..Len(props)}

CountKey(props, key) ==
    Cardinality({i \in 1..Len(props) : EntryKey(props[i]) = key})

\* a is b with some elements left out
RECURSIVE IsSubsequence(_, _)
IsSubsequence(a, b) ==
    IF a = <<>> THEN TRUE
    ELSE IF b = <<>> THEN FALSE
    ELSE IF Head(a) = Head(b) THEN IsSubsequence(Tail(a), Tail(b))
    ELSE IsSubsequence(a, Tail(b))

\* The source is one declaration of one declarator that binds the name
\* the call asks for to an object literal
SoleObjectBinding ==
    /\ ExtendVarCalled
    /\ file.errors = "none"
    /\ Len(file.stmts) = 1
    /\ file.stmts[1].kind = "VariableDeclaration"
    /\ Len(file.stmts[1].declarations) = 1
    /\ BindsObject(file.stmts[1].declarations[1], call.arg.var_name)

OldProperties == file.stmts[1].declarations[1].init.properties
NewProperties == ret.value.stmts[1].declarations[1].init.properties

\* C7: named-object extend succeeds only if some variable declaration
\* binds variableName to an object literal; otherwise it returns an error.
C7_ExtendNeedsObjectBinding ==
    (ExtendVarCalled /\ file.errors = "none" /\ ret.status = "ok") =>
        \E i \in 1..Len(AllDeclarators(file.stmts)) :
            BindsObject(AllDeclarators(file.stmts)[i], call.arg.var_name)

\* C8: whenever any variable declaration of the source binds variableName
\* to an object literal, the extension succeeds and is applied: when the
\* bound object literals are empty, the result has such a binding holding
\* an entry for every requested name.
C8_ExtendFindsAnyDeclaration ==
    LET decls == AllDeclarators(file.stmts)
        bound == {i \in 1..Len(decls) : BindsObject(decls[i], call.arg.var_name)}
    IN  (ExtendVarCalled /\ file.errors = "none" /\ bound # {}) =>
            /\ ret.status = "ok"
            /\ (\A i \in bound : decls[i].init.properties = <<>>) =>
                  \E i \in 1..Len(AllDeclarators(ret.value.stmts)) :
                      LET decl == AllDeclarators(ret.value.stmts)[i]
                      IN  /\ BindsObject(decl, call.arg.var_name)
                          /\ Range(call.arg.object_names)
                                \subseteq EntryKeys(decl.init.properties)

\* C9: each requested entry is added only if no existing property has the
\* same key; added entries follow all existing properties in the caller's
\* order, and the existing properties stay as they were.
C9_MergeAppendsAbsentKeys ==
    SoleObjectBinding =>
        /\ ret.status = "ok"
        /\ Len(NewProperties) >= Len(OldProperties)
        /\ SubSeq(NewProperties, 1, Len(OldProperties)) = OldProperties
        /\ LET added == SubSeq(NewProperties, Len(OldProperties) + 1,
                               Len(NewProperties))
           IN  /\ IsSubsequence([i \in 1..Len(added) |-> EntryKey(added[i])],
                                call.arg.object_names)
               /\ \A i \in 1..Len(added) :
                      EntryKey(added[i]) \notin EntryKeys(OldProperties)

\* C10: entries are compared by key and kind together: a requested name
\* whose key no existing entry has is added, whatever spread entries or
\* property values mention the same identifier, and a requested name whose
\* key an existing entry has is not added again.
C10_EntriesComparedByKeyAndKind ==
    SoleObjectBinding =>
        /\ ret.status = "ok"
        /\ \A n \in Range(call.arg.object_names) :
              IF n \in EntryKeys(OldProperties)
              THEN CountKey(NewProperties, n) = CountKey(OldProperties, n)
              ELSE n \in EntryKeys(NewProperties)

\* C11: when the object literal already holds an entry for every requested
\* name, the extension succeeds and the property list stays as it was; and
\* extending the result of an extension with the same names gives the same
\* property list again.
C11_ExtendTwiceIsExtendOnce ==
    SoleObjectBinding =>
        /\ ret.status = "ok"
        /\ (Range(call.arg.object_names) \subseteq EntryKeys(OldProperties))
               => NewProperties = OldProperties
        /\ LET again == extend_var_object_property_by_names_to_ast_nif(
                            ret.value, call.arg.var_name, call.arg.object_names)
           IN  /\ again.status = "ok"
               /\ again.value.stmts[1].declarations[1].init.properties
                      = NewProperties

----------------------------------------------------------------------------
(* Properties of the hook-object operations *)

HookExtendCalled ==
    call.op \in {"extend_hook_object_to_ast", "phoenix::extend_hook_object_to_ast"}
HookRemoveCalled ==
    call.op \in {"remove_objects_of_hooks_from_ast",
                 "phoenix::remove_objects_of_hooks_from_ast"}
HookProbeCalled ==
    call.op \in {"find_live_socket_node_from_ast",
                 "phoenix::find_live_socket_node_from_ast"}

\* The extension the call made, applied to another text
HookExtendOf(text, names) ==
    IF call.op = "extend_hook_object_to_ast"
    THEN extend_hook_object_to_ast_nif(text, names)
    ELSE phoenix_extend_hook_object_to_ast(text, names)

\* A declarator of the expected shape: liveSocket bound to a call of the
\* LiveSocket constructor whose last argument is an object literal
IsLiveSocketCall(decl) ==
    /\ decl.id = "liveSocket"
    /\ decl.init.type = "NewExpression"
    /\ decl.init.callee = "LiveSocket"
HasExpectedShape(decl) ==
    IsLiveSocketCall(decl) /\ LastArgumentIsObject(decl.init)

\* The text is one declaration of one declarator of the expected shape
IsSoleTarget(text) ==
    /\ text.errors = "none"
    /\ Len(text.stmts) = 1
    /\ text.stmts[1].kind = "VariableDeclaration"
    /\ Len(text.stmts[1].declarations) = 1
    /\ HasExpectedShape(text.stmts[1].declarations[1])

\* The properties of the options object of a sole target
OptionsOf(text) ==
    LET init == text.stmts[1].declarations[1].init
    IN  init.arguments[Len(init.arguments)].properties

WithOptions(text, properties) ==
    LET n == Len(text.stmts[1].declarations[1].init.arguments)
    IN  [text EXCEPT !.stmts[1].declarations[1].init.arguments[n] =
            ObjectExpression(properties)]

HasHooksKey(properties) ==
    \E i \in 1..Len(properties) :
        properties[i].kind = "ObjectProperty" /\ properties[i].key = "hooks"

\* The entries of the hooks object of an options object that has one
HooksOf(properties) == properties[HooksKeyValue(properties)].value.properties

\* The entry a requested name stands for: a spread entry for a name with
\* the spread marker, a shorthand entry otherwise
EntryOf(name) ==
    IF HasSpreadMarker(name)
    THEN SpreadProperty(Identifier(WithoutSpreadMarker(name)))
    ELSE Shorthand(name)

CountEntry(entries, e) ==
    Cardinality({i \in 1..Len(entries) : entries[i] = e})

\* The elements of s in the order of their first occurrence
RECURSIVE FirstOccurrences(_)
FirstOccurrences(s) ==
    IF s = <<>> THEN <<>>
    ELSE LET front == FirstOccurrences(SubSeq(s, 1, Len(s) - 1))
         IN  IF s[Len(s)] \in Range(front) THEN front
             ELSE Append(front, s[Len(s)])

\* C12: when the options object has no hooks property, the extension
\* succeeds, hooks is a key-value property holding an object literal in the
\* last place of the options, and the result is the result of extending
\* the same source with an empty hooks object already in the last place.
C12_CreatedHooksIsExtendedEmptyHooks ==
    (HookExtendCalled /\ IsSoleTarget(file) /\ ~HasHooksKey(OptionsOf(file))) =>
        /\ ret.status = "ok"
        /\ LET new == OptionsOf(ret.value)
           IN  /\ Len(new) = Len(OptionsOf(file)) + 1
               /\ SubSeq(new, 1, Len(new) - 1) = OptionsOf(file)
               /\ HooksKeyValue(new) = Len(new)
        /\ ret = HookExtendOf(
                     WithOptions(file, Append(OptionsOf(file), HooksProperty(<<>>))),
                     call.arg)

\* C13: extending an existing hooks object leaves its entries in place and
\* appends after them, in the caller's order, the entries of exactly those
\* requested names for which no entry of the same key and kind exists.
C13_ExtendAppendsAbsentEntries ==
    (HookExtendCalled /\ IsSoleTarget(file)
        /\ HooksKeyValue(OptionsOf(file)) # 0) =>
        /\ ret.status = "ok"
        /\ LET old == HooksOf(OptionsOf(file))
               new == HooksOf(OptionsOf(ret.value))
               absent(name) == EntryOf(name) \notin Range(old)
               wanted == SelectSeq(call.arg, absent)
           IN  /\ Len(new) >= Len(old)
               /\ SubSeq(new, 1, Len(old)) = old
               /\ FirstOccurrences(SubSeq(new, Len(old) + 1, Len(new)))
                    = FirstOccurrences([i \in 1..Len(wanted) |-> EntryOf(wanted[i])])

\* C14: a name requested twice, for which hooks holds no entry of the same
\* key and kind beforehand, is in the resulting hooks object twice.
C14_RepeatedNameAddedTwice ==
    (HookExtendCalled /\ IsSoleTarget(file)
        /\ (HasHooksKey(OptionsOf(file)) => HooksKeyValue(OptionsOf(file)) # 0)) =>
        \A i, j \in 1..Len(call.arg) :
            ( /\ i < j
              /\ call.arg[i] = call.arg[j]
              /\ (HasHooksKey(OptionsOf(file)) =>
                     EntryOf(call.arg[i]) \notin Range(HooksOf(OptionsOf(file)))) )
            => /\ ret.status = "ok"
               /\ CountEntry(HooksOf(OptionsOf(ret.value)), EntryOf(call.arg[i])) >= 2

\* The program the extension built, before it is printed
HookExtendTree ==
    IF call.op = "extend_hook_object_to_ast"
    THEN ExtendHookBody(file, call.arg).value
    ELSE PhoenixExtendModule(file, call.arg).module

\* The entries of hooks in the source, none when hooks is yet to be created
OldHooks ==
    IF HooksKeyValue(OptionsOf(file)) # 0 THEN HooksOf(OptionsOf(file)) ELSE <<>>

\* C15: every entry the extension adds to hooks is the entry of a
\* requested name: a spread entry whose argument is the name without the
\* marker for a name that carries the spread marker, a shorthand property
\* for a name without it; no added entry is a shorthand property whose
\* identifier includes the marker.
C15_PrefixedNameIsSpreadEntry ==
    (HookExtendCalled /\ IsSoleTarget(file)
        /\ (HasHooksKey(OptionsOf(file)) => HooksKeyValue(OptionsOf(file)) # 0)) =>
        /\ ret.status = "ok"
        /\ LET entries == HooksOf(OptionsOf([stmts |-> HookExtendTree]))
           IN  \A i \in (Len(OldHooks) + 1)..Len(entries) :
                  /\ entries[i] \in {EntryOf(call.arg[k]) : k \in 1..Len(call.arg)}
                  /\ ~(entries[i].kind = "ObjectProperty"
                          /\ entries[i].shorthand
                          /\ HasSpreadMarker(entries[i].key))

\* C16: extending a target whose options hold an empty hooks object, and
\* then extending the result with the same names, doubles nothing: every
\* entry of hooks after the first call occurs as many times after the
\* second.
C16_SecondExtendDoublesNothing ==
    (HookExtendCalled /\ IsSoleTarget(file)
        /\ HooksKeyValue(OptionsOf(file)) # 0
        /\ OldHooks = <<>>) =>
        /\ ret.status = "ok"
        /\ LET again == HookExtendOf(ret.value, call.arg)
               once  == HooksOf(OptionsOf(ret.value))
           IN  /\ again.status = "ok"
               /\ \A e \in Range(once) :
                      CountEntry(HooksOf(OptionsOf(again.value)), e)
                          = CountEntry(once, e)

\* The entry is a shorthand or spread entry named in the removal set
IsNamedForRemoval(e, names) ==
    IF e.kind = "SpreadProperty"
    THEN e.argument.type = "Identifier"
            /\ WithSpreadMarker(e.argument.name) \in Range(names)
    ELSE e.shorthand /\ e.key \in Range(names)

\* The entry is a key-value property whose key is in the removal set
IsKeyValueNamed(e, names) ==
    e.kind = "ObjectProperty" /\ ~e.shorthand /\ e.key \in Range(names)

\* C17: removal deletes from hooks every shorthand entry whose name is in
\* the removal set and every spread entry whose name with the spread
\* marker is in it; the other entries stay, in their order.  (A key-value
\* property whose key is in the removal set is left out of the comparison.)
C17_RemoveDeletesNamedEntries ==
    (HookRemoveCalled /\ IsSoleTarget(file)
        /\ HooksKeyValue(OptionsOf(file)) # 0) =>
        /\ ret.status = "ok"
        /\ HooksKeyValue(OptionsOf(ret.value)) # 0
        /\ LET stays(e) == ~IsNamedForRemoval(e, call.arg)
               counted(e) == ~IsKeyValueNamed(e, call.arg)
           IN  SelectSeq(HooksOf(OptionsOf(ret.value)), counted)
                  = SelectSeq(SelectSeq(OldHooks, stays), counted)

\* C18: hook extend and hook remove return an error when no declaration
\* binds liveSocket to a call of the LiveSocket constructor whose last
\* argument is an object literal: liveSocket is not bound at all, or it is
\* bound to something else than such a call, or the call's last argument is
\* not an object literal.
C18_WrongShapeIsError ==
    ((HookExtendCalled \/ HookRemoveCalled) /\ file.errors = "none"
        /\ \A i \in 1..Len(AllDeclarators(file.stmts)) :
              ~HasExpectedShape(AllDeclarators(file.stmts)[i])) =>
        ret.status = "error"

\* Sources in which no declaration binds the target name
NotBoundTexts ==
    {Text("none", "double", <<>>),
     Text("none", "double",
          <<VariableDeclaration(
               <<VariableDeclarator("other", ObjectExpression(<<>>))>>)>>)}

\* The operation the call made, applied to another text
CalledOn(text) ==
    IF call.op = "extend_hook_object_to_ast"
    THEN extend_hook_object_to_ast_nif(text, call.arg)
    ELSE IF call.op = "phoenix::extend_hook_object_to_ast"
    THEN phoenix_extend_hook_object_to_ast(text, call.arg)
    ELSE IF call.op = "remove_objects_of_hooks_from_ast"
    THEN remove_objects_of_hooks_from_ast_nif(text, call.arg)
    ELSE IF call.op = "phoenix::remove_objects_of_hooks_from_ast"
    THEN phoenix_remove_objects_of_hooks_from_ast(text, call.arg)
    ELSE extend_var_object_property_by_names_to_ast_nif(
             text, call.arg.var_name, call.arg.object_names)

\* C19: when the target name is bound but no binding of it has the
\* expected shape (an object literal for the named-object extender, the
\* LiveSocket call with a trailing object literal for the hook operations),
\* the call returns an error, and that error is not one the same call
\* returns on a source that does not bind the name.
C19_NotFoundDiffersFromShapeMismatch ==
    LET decls  == AllDeclarators(file.stmts)
        target == IF ExtendVarCalled THEN call.arg.var_name ELSE "liveSocket"
        shaped(decl) == IF ExtendVarCalled
                        THEN decl.init.type = "ObjectExpression"
                        ELSE HasExpectedShape(decl)
    IN  ( /\ call.op # "none"
          /\ file.errors = "none"
          /\ \E i \in 1..Len(decls) : decls[i].id = target
          /\ \A i \in 1..Len(decls) : decls[i].id = target => ~shaped(decls[i]) )
        => /\ ret.status = "error"
           /\ \A text \in NotBoundTexts : ret # CalledOn(text)

\* C20: the probe reports found exactly when some declaration binds
\* liveSocket to a call of the LiveSocket constructor whose last argument is
\* an object literal, whether or not that object has a hooks property, and
\* reports not found otherwise.
C20_ProbeFindsExpectedShape ==
    (HookProbeCalled /\ file.errors = "none") =>
        IF \E i \in 1..Len(AllDeclarators(file.stmts)) :
               HasExpectedShape(AllDeclarators(file.stmts)[i])
        THEN ret.status = "ok" /\ ret.value = TRUE
        ELSE ret.status = "error" /\ ret.value = FALSE

----------------------------------------------------------------------------
(* Properties of the mutating operations as a whole *)

MutatingCalled == HookExtendCalled \/ HookRemoveCalled \/ ExtendVarCalled

\* A declarator the called operation is meant to work on
IsTargetOfCall(decl) ==
    IF ExtendVarCalled
    THEN BindsObject(decl, call.arg.var_name)
    ELSE HasExpectedShape(decl)

\* The entries the called operation works on in a declarator of the result
TargetEntries(decl) ==
    IF ExtendVarCalled THEN decl.init.properties
    ELSE LET options == decl.init.arguments[Len(decl.init.arguments)].properties
         IN  IF HooksKeyValue(options) = 0 THEN <<>> ELSE HooksOf(options)

\* The whole of the requested mutation shows in the entries
FullyApplied(entries) ==
    IF HookRemoveCalled
    THEN \A i \in 1..Len(entries) : ~IsNamedForRemoval(entries[i], call.arg)
    ELSE LET names == IF ExtendVarCalled THEN call.arg.object_names ELSE call.arg
         IN  Range(names) \subseteq EntryKeys(entries)

\* C21: a mutating operation returns either text or an error; it returns
\* an error whenever no declaration has the shape it works on; and the
\* text it returns is the text of a tree to which the whole of the
\* requested mutation was applied.
C21_TextOfWholeMutationOrError ==
    (MutatingCalled /\ file.errors = "none") =>
        /\ ret.status \in {"ok", "error"}
        /\ (\A i \in 1..Len(AllDeclarators(file.stmts)) :
                ~IsTargetOfCall(AllDeclarators(file.stmts)[i]))
              => ret.status = "error"
        /\ (ret.status = "ok") =>
              \E i \in 1..Len(AllDeclarators(ret.value.stmts)) :
                  LET decl == AllDeclarators(ret.value.stmts)[i]
                  IN  IsTargetOfCall(decl) /\ FullyApplied(TargetEntries(decl))

----------------------------------------------------------------------------
(* Properties of the statistics collector *)

StatisticsCalled == call.op = "statistics_from_ast"

\* The kind of every node of the source, nested ones included; a method
\* or constructor is one node with the function it holds
RECURSIVE NodeKinds(_)
RECURSIVE MethodKinds(_)
MethodKinds(elements) ==
    IF elements = <<>> THEN <<>>
    ELSE <<"MethodDefinition">> \o NodeKinds(Head(elements).value.body)
             \o MethodKinds(Tail(elements))
NodeKinds(stmts) ==
    IF stmts = <<>> THEN <<>>
    ELSE LET node == Head(stmts)
             inner ==
                 IF node.kind \in {"FunctionDeclaration", "BlockStatement"}
                 THEN NodeKinds(node.body)
                 ELSE IF node.kind = "ClassDeclaration"
                 THEN MethodKinds(node.body)
                 ELSE IF node.kind = "TryStatement"
                 THEN NodeKinds(node.block) \o NodeKinds(node.handler)
                 ELSE IF node.kind = "ExpressionStatement"
                         /\ "expression" \in DOMAIN node
                 THEN <<node.expression.type>>
                      \o (IF node.expression.type = "FunctionExpression"
                          THEN NodeKinds(node.expression.body)
                          ELSE IF node.expression.type = "ClassExpression"
                          THEN MethodKinds(node.expression.body)
                          ELSE <<>>)
                 ELSE <<>>
         IN  <<node.kind>> \o inner \o NodeKinds(Tail(stmts))

CountKinds(stmts, kinds) ==
    Cardinality({i \in 1..Len(NodeKinds(stmts)) : NodeKinds(stmts)[i] \in kinds})

\* C22 as stated: the counters are the numbers of function declarations,
\* class declarations, debugger statements, import declarations, try
\* statements and throw statements of the source.
C22_CountersAreDeclarationCounts ==
    (StatisticsCalled /\ file.errors = "none") =>
        /\ ret.status = "ok"
        /\ ret.value =
              [functions |-> CountKinds(file.stmts, {"FunctionDeclaration"}),
               classes   |-> CountKinds(file.stmts, {"ClassDeclaration"}),
               debuggers |-> CountKinds(file.stmts, {"DebuggerStatement"}),
               imports   |-> CountKinds(file.stmts, {"ImportDeclaration"}),
               trys      |-> CountKinds(file.stmts, {"TryStatement"}),
               throws    |-> CountKinds(file.stmts, {"ThrowStatement"})]

\* C22 amended: the counters are the numbers of functions (function
\* declarations, function expressions, methods and constructors; not arrow
\* functions), classes (class declarations and class expressions), debugger
\* statements, import declarations, try statements and throw statements of
\* the source.
C22_CountersAreNodeCounts ==
    (StatisticsCalled /\ file.errors = "none") =>
        /\ ret.status = "ok"
        /\ ret.value =
              [functions |-> CountKinds(file.stmts,
                                 {"FunctionDeclaration", "FunctionExpression",
                                  "MethodDefinition"}),
               classes   |-> CountKinds(file.stmts,
                                 {"ClassDeclaration", "ClassExpression"}),
               debuggers |-> CountKinds(file.stmts, {"DebuggerStatement"}),
               imports   |-> CountKinds(file.stmts, {"ImportDeclaration"}),
               trys      |-> CountKinds(file.stmts, {"TryStatement"}),
               throws    |-> CountKinds(file.stmts, {"ThrowStatement"})]

\* Two imports, a class without methods and a function declaration that
\* holds two debugger statements
C22_Witness ==
    /\ StatisticsCalled
    /\ Len(file.stmts) = 4
    /\ IsImport(file.stmts[1]) /\ IsImport(file.stmts[2])
    /\ file.stmts[3] = ClassDeclaration(<<>>)
    /\ file.stmts[4].kind = "FunctionDeclaration"
    /\ ret = Ok([functions |-> 1, classes |-> 1, debuggers |-> 2,
                 imports |-> 2, trys |-> 0, throws |-> 0])

\* The statistics of a list of statements
StatisticsOf(stmts) == source_visitor(Text("none", "double", stmts)).value

Plus(a, b) == [counter \in DOMAIN a |-> a[counter] + b[counter]]

One(counter) == [ASTStatistics EXCEPT ![counter] = 1]

\* Every method counts as one function, on top of what its body holds
RECURSIVE StatisticsOfMethods(_)
StatisticsOfMethods(elements) ==
    IF elements = <<>> THEN ASTStatistics
    ELSE Plus(Plus(One("functions"), StatisticsOf(Head(elements).value.body)),
              StatisticsOfMethods(Tail(elements)))

WithoutStatement(stmts, i) ==
    SubSeq(stmts, 1, i - 1) \o SubSeq(stmts, i + 1, Len(stmts))

\* C23: nested occurrences are counted: a function declaration adds one
\* function and whatever its body holds to the statistics of the rest of
\* the source; a class declaration adds one class and, for each of its
\* methods and constructors, one function and whatever that body holds.
C23_NestedNodesAreCounted ==
    (StatisticsCalled /\ file.errors = "none") =>
        /\ ret.status = "ok"
        /\ \A i \in 1..Len(file.stmts) :
              LET node == file.stmts[i]
                  rest == StatisticsOf(WithoutStatement(file.stmts, i))
              IN  /\ node.kind = "FunctionDeclaration" =>
                        ret.value = Plus(Plus(rest, One("functions")),
                                         StatisticsOf(node.body))
                  /\ node.kind = "ClassDeclaration" =>
                        ret.value = Plus(Plus(rest, One("classes")),
                                         StatisticsOfMethods(node.body))

\* A class with a constructor and a top-level function: two functions and
\* one class
C23_Witness ==
    /\ StatisticsCalled
    /\ Len(file.stmts) = 2
    /\ file.stmts[1].kind = "ClassDeclaration"
    /\ Len(file.stmts[1].body) = 1
    /\ file.stmts[1].body[1].kind = "constructor"
    /\ file.stmts[2] = FunctionDeclaration(<<>>)
    /\ ret.status = "ok"
    /\ ret.value.functions = 2
    /\ ret.value.classes = 1

----------------------------------------------------------------------------
(* Properties of the comment placement *)

CssInsertCalled == call.op = "css::insert_import_to_ast"

\* The comments of the declarations and selectors a line of the emitted
\* rule holds, line by line
RECURSIVE LineComments(_)
RECURSIVE BlockComments(_)
RECURSIVE PseudoComments(_)
PseudoComments(pseudos) ==
    IF pseudos = <<>> THEN {}
    ELSE Range(Head(pseudos).leading) \cup Range(Head(pseudos).trailing)
            \cup PseudoComments(Tail(pseudos))
BlockComments(block) ==
    IF block = <<>> THEN <<>>
    ELSE (IF Head(block).type = "Declaration"
          THEN <<Range(Head(block).trailing)>>
          ELSE LineComments(Head(block)))
         \o BlockComments(Tail(block))
LineComments(rule) ==
    IF rule.type = "QualifiedRule"
    THEN <<PseudoComments(rule.prelude.pseudos)>>
            \o BlockComments(rule.block) \o <<{}>>
    ELSE IF rule.prelude.type = "Declaration"
    THEN <<Range(rule.prelude.trailing)>> \o BlockComments(rule.block) \o <<{}>>
    ELSE <<{}>>

\* The stylesheet is one rule, and the call returned its text
SoleRuleEmitted ==
    /\ CssInsertCalled
    /\ file.errors = "none"
    /\ Len(file.rules) = 1
    /\ ret.status = "ok"

\* The lines of the returned text that spell the rule of the stylesheet
EmittedRuleLines ==
    LET rule == file.rules[1]
        last == Len(ret.value) - Len(rule.trailing)
    IN  SubSeq(ret.value, last - Len(EmitRule(rule, 0)) + 1, last)

\* The number of places at which t stands in s
Occurrences(s, t) ==
    Cardinality({i \in 0..(Len(s) - Len(t)) : SubSeq(s, i + 1, i + Len(t)) = t})

\* C24: a comment stands only on the emitted line that holds the
\* declaration or the pseudo selector it is attached to: a line of the
\* emitted rule shows no comment of a declaration or selector of another
\* line.
C24_CommentOnlyOnItsOwnLine ==
    SoleRuleEmitted =>
        \A i \in 1..Len(EmittedRuleLines) : \A c \in CommentTexts :
            Contains(EmittedRuleLines[i], trim(InlineComment(c)))
                => c \in LineComments(file.rules[1])[i]

\* C25: no emitted line shows the same comment twice, also when the
\* comment was collected for that line more than once.
C25_CommentOncePerLine ==
    (CssInsertCalled /\ ret.status = "ok") =>
        \A i \in 1..Len(ret.value) : \A c \in CommentTexts :
            Occurrences(ret.value[i], trim(InlineComment(c))) <= 1

\* An @supports rule whose feature carries a comment: the comment is
\* collected from the declaration and from its value, and the line shows
\* it once
C25_Witness ==
    /\ SoleRuleEmitted
    /\ file.rules[1].type = "AtRule"
    /\ ~file.rules[1].prelude.important
    /\ file.rules[1].prelude.trailing = <<"c1">>
    /\ Len(collected_comments(file.rules[1])) >= 2
    /\ collected_comments(file.rules[1])[1][2] = collected_comments(file.rules[1])[2][2]
    /\ Occurrences(EmittedRuleLines[1], trim(InlineComment("c1"))) = 1

----------------------------------------------------------------------------
(* Properties of the stylesheet import inserter *)

\* C26: a call repeated with the same arguments returns the same result.
C26_SameCallSameResult ==
    [][(CssInsertCalled /\ call' = call) => ret' = ret]_vars

\* The line the code generator writes for an @import of a specifier
ImportLineOf(specifier) == "@import \"" \o specifier \o "\";"

\* The text of the stylesheet as it is, nothing inserted
EmittedUnchanged == css_insert_import_to_ast(file, <<>>, <<>>).value

\* The line is blank or an @import line for a specifier, with or without
\* the semicolon and white space around it
IsBlankOrImportLine(line) ==
    \/ trim(line) = ""
    \/ \E before \in {"", " ", "  "}, after \in {"", " ", "  "},
          semicolon \in {"", ";"}, specifier \in CssSpecifiers :
            line = ImportLineText(before, specifier, semicolon, after)

\* C30: the returned text is the text of the stylesheet with new @import
\* rules in front of it; there is no new rule for a specifier the
\* stylesheet imports already, and at most one new rule for any specifier,
\* however often and with or without semicolon or surrounding white space
\* the lines ask for it.
C30_NoDuplicateImportRule ==
    (CssInsertCalled /\ file.errors = "none"
        /\ \A l \in 1..Len(call.arg) : IsBlankOrImportLine(call.arg[l])) =>
        /\ ret.status = "ok"
        /\ LET k == Len(ret.value) - Len(EmittedUnchanged)
               added == SubSeq(ret.value, 1, k)
           IN  /\ k >= 0
               /\ SubSeq(ret.value, k + 1, Len(ret.value)) = EmittedUnchanged
               /\ \A i \in 1..k :
                      \E specifier \in CssSpecifiers :
                          added[i] = ImportLineOf(specifier)
               /\ \A specifier \in CssSpecifiers :
                      LET n == Cardinality({i \in 1..k :
                                   added[i] = ImportLineOf(specifier)})
                      IN  /\ n <= 1
                          /\ specifier \in existing_imports(file.rules) => n = 0

----------------------------------------------------------------------------
(* Properties of several declarations of the target name *)

\* The name the called operation looks for
TargetName == IF ExtendVarCalled THEN call.arg.var_name ELSE "liveSocket"

\* The places, in traversal order, of the declarators that bind the target
Bindings ==
    {i \in 1..Len(AllDeclarators(file.stmts)) :
        AllDeclarators(file.stmts)[i].id = TargetName}

\* The source with the first binding of the target as its only one
FirstBindingAlone ==
    LET decls == AllDeclarators(file.stmts)
        kept  == {i \in 1..Len(decls) : i \notin Bindings \/ i = Min(Bindings)}
        place(k) == CHOOSE i \in kept : Cardinality({j \in kept : j < i}) = k - 1
    IN  Text(file.errors, file.quote,
             [k \in 1..Cardinality(kept) |-> VariableDeclaration(<<decls[place(k)]>>)])

\* The result of the called operation on another source
ResultOfCallOn(text) ==
    CASE call.op = "extend_hook_object_to_ast" ->
             extend_hook_object_to_ast_nif(text, call.arg)
      [] call.op = "remove_objects_of_hooks_from_ast" ->
             remove_objects_of_hooks_from_ast_nif(text, call.arg)
      [] call.op = "phoenix::extend_hook_object_to_ast" ->
             phoenix_extend_hook_object_to_ast(text, call.arg)
      [] call.op = "phoenix::remove_objects_of_hooks_from_ast" ->
             phoenix_remove_objects_of_hooks_from_ast(text, call.arg)
      [] call.op = "extend_var_object_property_by_names_to_ast" ->
             extend_var_object_property_by_names_to_ast_nif(
                 text, call.arg.var_name, call.arg.object_names)

\* C28: when several declarations bind the target name, the first one in
\* traversal order wins: the operation succeeds or fails as it does on the
\* source that holds the first binding alone, and in the text it returns
\* every later declaration of the name is as it was written.
C28_FirstBindingWins ==
    (MutatingCalled /\ file.errors = "none" /\ Cardinality(Bindings) >= 2) =>
        /\ ret.status = ResultOfCallOn(FirstBindingAlone).status
        /\ (ret.status = "ok") =>
              \A i \in Bindings \ {Min(Bindings)} :
                  AllDeclarators(ret.value.stmts)[i] =
                      PrintDeclarator(AllDeclarators(file.stmts)[i])

\* C29: hook extend and hook remove change nothing but the options object
\* of the constructor call bound to liveSocket: the text they return has
\* the statements of the source, every statement that is not a declaration
\* is as it was written, and so is every declarator of another variable,
\* its constructor call, options object and hooks included.
C29_OnlyLiveSocketOptionsChange ==
    ((HookExtendCalled \/ HookRemoveCalled) /\ file.errors = "none"
        /\ ret.status = "ok") =>
        /\ Len(ret.value.stmts) = Len(file.stmts)
        /\ \A i \in 1..Len(file.stmts) :
              file.stmts[i].kind \notin {"VariableDeclaration", "BlockStatement"}
                  => ret.value.stmts[i] = PrintStatement(file.stmts[i])
        /\ Len(AllDeclarators(ret.value.stmts)) = Len(AllDeclarators(file.stmts))
        /\ \A i \in 1..Len(AllDeclarators(file.stmts)) :
              AllDeclarators(file.stmts)[i].id # "liveSocket"
                  => AllDeclarators(ret.value.stmts)[i] =
                         PrintDeclarator(AllDeclarators(file.stmts)[i])

----------------------------------------------------------------------------
(* Properties of the pass of the hook visitor *)

\* The step belongs to one pass: it neither begins nor follows one
StepOfPass == hook_extender.pc # "idle" /\ hook_extender'.pc # "idle"

\* C27: during one pass of hook extend, remove or find the condition starts
\* as NotFound and is assigned at most once, to its final value: a pass
\* begins with find = NotFound, a find that has left NotFound is never
\* changed again, and in particular a find that is Found stays Found
\* whatever declaration is visited later.
C27_FindAssignedOnce ==
    [][/\ (hook_extender.pc = "idle" /\ hook_extender'.pc # "idle")
            => hook_extender'.find = NotFound("")
       /\ (StepOfPass /\ hook_extender.find # NotFound(""))
            => hook_extender'.find = hook_extender.find
       /\ (StepOfPass /\ hook_extender.find = Found)
            => hook_extender'.find = Found]_vars
====
